---- MODULE Spec2Model ----
(***************************************************************************)
(* Model of the tool-augmented conversation loop of llm-agent:             *)
(* Agent.Run of pkg/agent/agent.go (the variant with the <tool> block, the *)
(* {"function": ...} object and the [Tool: ...] line formats), together    *)
(* with the history sink ChatStorage.SaveMessage.                          *)
(*                                                                         *)
(* Strings are sequences of tokens.  A token is a TLA+ string holding the  *)
(* literal bytes of a piece of text; the markers the code searches for     *)
(* ("<tool>", "</tool>", "[Tool:", "Input:", "]", newline, space) and      *)
(* whole JSON documents are tokens, so that byte offsets (strings.Index,   *)
(* the slice fullResponse[toolStart+6 : toolEnd]) are sums of token        *)
(* lengths and always fall on token boundaries when the slice is legal.    *)
(***************************************************************************)
EXTENDS Integers, Sequences, FiniteSets, TLC

(***************************************************************************)
(* Bounds of the model.                                                    *)
(***************************************************************************)
\* number of non-empty user exchanges one run of Spec goes through
MaxTurns == 2
\* number of fragments a reply of DetectSpec is concatenated from
MaxParts == 3

(***************************************************************************)
(* Tokens.                                                                 *)
(***************************************************************************)
TOOL_OPEN == "<tool>"
TOOL_CLOSE == "</tool>"
LINE_MARK == "[Tool:"
INPUT_MARK == "Input:"
RBRACKET == "]"
NL == "\n"
SP == " "
TOOL_CALLS == "tool_calls"
RESULT_OPEN == "<result>"
RESULT_CLOSE == "</result>"

\* argument payloads (raw JSON text)
A_PATH == "{\"path\":\".\"}"
A_EMPTY == "{}"
\* JSON documents a reply can carry
J_LISTDIR == "{\"name\":\"list_dir\",\"arguments\":{\"path\":\".\"}}"
J_READ == "{\"name\":\"read_file\",\"arguments\":{}}"
J_UNKNOWN == "{\"name\":\"list_files\",\"arguments\":{}}"
J_NONAME == "{\"arguments\":{\"path\":\".\"}}"
J_NOARGS == "{\"name\":\"read_file\"}"
J_BAD == "{\"name\":"
J_FUNC == "{\"function\":{\"name\":\"list_dir\",\"arguments\":{\"path\":\".\"}}}"
J_FUNC_TC == "{\"tool_calls\":[],\"function\":{\"name\":\"read_file\",\"arguments\":{}}}"

\* unicode.IsSpace on the tokens of the model
IsSpace(tok) == tok \in {SP, NL}

(***************************************************************************)
(* The strings package on token sequences.                                 *)
(***************************************************************************)
RECURSIVE ByteLen(_)
ByteLen(s) == IF s = <<>> THEN 0 ELSE Len(Head(s)) + ByteLen(Tail(s))

\* position (1-based token index) of the first occurrence of tok, 0 if none
RECURSIVE FirstPos(_, _, _)
FirstPos(s, tok, i) ==
    IF i > Len(s) THEN 0
    ELSE IF s[i] = tok THEN i
    ELSE FirstPos(s, tok, i + 1)

\* strings.Index(s, tok): byte offset of the first occurrence, -1 if none
Index(s, tok) ==
    LET p == FirstPos(s, tok, 1)
    IN IF p = 0 THEN -1 ELSE ByteLen(SubSeq(s, 1, p - 1))

\* the tokens whose text contains substr "tool_calls"
HasToolCallsText(tok) == tok \in {TOOL_CALLS, J_FUNC_TC}

\* strings.Contains(s, marker) for a marker that is a token of its own
Contains(s, tok) == \E i \in 1..Len(s) : s[i] = tok

\* strings.Contains(s, "tool_calls")
ContainsToolCalls(s) == \E i \in 1..Len(s) : HasToolCallsText(s[i])

\* s[lo:hi] for byte offsets lo <= hi that fall on token boundaries
RECURSIVE SliceFrom(_, _, _, _)
SliceFrom(s, off, lo, hi) ==
    IF s = <<>> THEN <<>>
    ELSE LET n == Len(Head(s))
         IN IF off >= lo /\ off + n <= hi
            THEN <<Head(s)>> \o SliceFrom(Tail(s), off + n, lo, hi)
            ELSE SliceFrom(Tail(s), off + n, lo, hi)
Slice(s, lo, hi) == SliceFrom(s, 0, lo, hi)

RECURSIVE TrimLeft(_)
TrimLeft(s) ==
    IF s /= <<>> /\ IsSpace(Head(s)) THEN TrimLeft(Tail(s)) ELSE s
RECURSIVE TrimRight(_)
TrimRight(s) ==
    IF s /= <<>> /\ IsSpace(s[Len(s)]) THEN TrimRight(SubSeq(s, 1, Len(s) - 1)) ELSE s
\* strings.TrimSpace
TrimSpace(s) == TrimRight(TrimLeft(s))

\* strings.Split(s, "\n"): the lines of s, always at least one
RECURSIVE SplitLines(_, _)
SplitLines(s, cur) ==
    IF s = <<>> THEN <<cur>>
    ELSE IF Head(s) = NL THEN <<cur>> \o SplitLines(Tail(s), <<>>)
    ELSE SplitLines(Tail(s), Append(cur, Head(s)))
Split(s) == SplitLines(s, <<>>)

HasPrefix(s, tok) == s /= <<>> /\ s[1] = tok
TrimPrefix(s, tok) == IF HasPrefix(s, tok) THEN Tail(s) ELSE s
TrimSuffix(s, tok) ==
    IF s /= <<>> /\ s[Len(s)] = tok THEN SubSeq(s, 1, Len(s) - 1) ELSE s

\* len(strings.Fields(s)): the number of maximal runs of non-space text
RECURSIVE FieldsFrom(_, _)
FieldsFrom(s, inWord) ==
    IF s = <<>> THEN 0
    ELSE IF IsSpace(Head(s)) THEN FieldsFrom(Tail(s), FALSE)
    ELSE (IF inWord THEN 0 ELSE 1) + FieldsFrom(Tail(s), TRUE)
Fields(s) == FieldsFrom(s, FALSE)

(***************************************************************************)
(* encoding/json on the JSON documents of the model.  JSONDoc gives, for a *)
(* token that is a complete JSON object, the Go values json.Unmarshal      *)
(* stores for the keys the two anonymous structs of Agent.Run read         *)
(* ("name", "arguments", "function.name", "function.arguments"); a key the *)
(* document lacks leaves the zero value, the empty string.                 *)
(***************************************************************************)
NoFields == [name |-> <<>>, arguments |-> <<>>, fname |-> <<>>, farguments |-> <<>>]

JSONObjects == {A_PATH, A_EMPTY, J_LISTDIR, J_READ, J_UNKNOWN, J_NONAME, J_NOARGS, J_FUNC, J_FUNC_TC}

JSONDoc(tok) ==
    CASE tok = J_LISTDIR -> [NoFields EXCEPT !.name = <<"list_dir">>, !.arguments = <<A_PATH>>]
      [] tok = J_READ -> [NoFields EXCEPT !.name = <<"read_file">>, !.arguments = <<A_EMPTY>>]
      [] tok = J_UNKNOWN -> [NoFields EXCEPT !.name = <<"list_files">>, !.arguments = <<A_EMPTY>>]
      [] tok = J_NONAME -> [NoFields EXCEPT !.arguments = <<A_PATH>>]
      [] tok = J_NOARGS -> [NoFields EXCEPT !.name = <<"read_file">>]
      [] tok = J_FUNC -> [NoFields EXCEPT !.fname = <<"list_dir">>, !.farguments = <<A_PATH>>]
      [] tok = J_FUNC_TC -> [NoFields EXCEPT !.fname = <<"read_file">>, !.farguments = <<A_EMPTY>>]
      [] OTHER -> NoFields

\* the tokens whose first byte is '{'
StartsWithBrace(tok) == tok \in JSONObjects \cup {J_BAD}

\* json.Unmarshal(data, &v): data must be one JSON value, surrounded by
\* nothing but whitespace; a value that is not an object does not fit a struct
Unmarshal(data) ==
    LET t == TrimSpace(data)
    IN IF Len(t) = 1 /\ t[1] \in JSONObjects
       THEN [err |-> FALSE, doc |-> JSONDoc(t[1])]
       ELSE [err |-> TRUE, doc |-> NoFields]

(***************************************************************************)
(* Detection of a tool call in the accumulated reply (Agent.Run).          *)
(***************************************************************************)
\* len("<tool>"), the literal 6 of fullResponse[toolStart+6 : toolEnd]
ToolOpenLen == 6

\* the for loop over lines: the first line with prefix "[Tool:" decides
RECURSIVE ScanLines(_, _, _)
ScanLines(lines, i, cur) ==
    IF i > Len(lines) THEN cur
    ELSE IF HasPrefix(lines[i], LINE_MARK)
    THEN [toolName |-> TrimSpace(TrimPrefix(TrimSuffix(lines[i], RBRACKET), LINE_MARK)),
          toolInput |-> IF i + 1 <= Len(lines) /\ HasPrefix(lines[i + 1], INPUT_MARK)
                        THEN TrimSpace(TrimPrefix(lines[i + 1], INPUT_MARK))
                        ELSE cur.toolInput]
    ELSE ScanLines(lines, i + 1, cur)

\* "Try to parse as XML tool format first": panics when the slice bounds are
\* out of order, as Go does
ParseToolBlock(fullResponse) ==
    LET toolStart == Index(fullResponse, TOOL_OPEN)
        toolEnd == Index(fullResponse, TOOL_CLOSE)
    IN IF toolStart = -1 \/ toolEnd = -1
       THEN [panic |-> FALSE, toolName |-> <<>>, toolInput |-> <<>>]
       ELSE IF toolStart + ToolOpenLen > toolEnd
       THEN [panic |-> TRUE, toolName |-> <<>>, toolInput |-> <<>>]
       ELSE LET toolCall == Unmarshal(Slice(fullResponse, toolStart + ToolOpenLen, toolEnd))
            IN IF ~toolCall.err
               THEN [panic |-> FALSE, toolName |-> toolCall.doc.name,
                     toolInput |-> toolCall.doc.arguments]
               ELSE [panic |-> FALSE, toolName |-> <<>>, toolInput |-> <<>>]

\* "try Ollama's tool_calls format if the response looks like JSON"; indexing
\* byte 0 of an empty trimmed reply panics
ParseFunctionObject(fullResponse, cur) ==
    IF cur.toolName /= <<>> THEN cur
    ELSE IF TrimSpace(fullResponse) = <<>> THEN [cur EXCEPT !.panic = TRUE]
    ELSE IF ~StartsWithBrace(TrimSpace(fullResponse)[1]) THEN cur
    ELSE LET toolCall == Unmarshal(fullResponse)
         IN IF ~toolCall.err
            THEN [cur EXCEPT !.toolName = toolCall.doc.fname,
                             !.toolInput = toolCall.doc.farguments]
            ELSE cur

\* "If both XML and Ollama parsing failed, try Claude's format"
ParseToolLine(fullResponse, cur) ==
    IF cur.toolName /= <<>> THEN cur
    ELSE LET r == ScanLines(Split(fullResponse), 1, [toolName |-> <<>>, toolInput |-> cur.toolInput])
         IN [cur EXCEPT !.toolName = r.toolName, !.toolInput = r.toolInput]

\* the condition of "Check if the response contains tool usage"
LooksLikeToolUse(fullResponse) ==
    \/ Contains(fullResponse, TOOL_OPEN)
    \/ Contains(fullResponse, LINE_MARK)
    \/ ContainsToolCalls(fullResponse)

\* the whole detection step: [panic, toolName, toolInput]
DetectToolCall(fullResponse) ==
    IF ~LooksLikeToolUse(fullResponse)
    THEN [panic |-> FALSE, toolName |-> <<>>, toolInput |-> <<>>]
    ELSE LET xml == ParseToolBlock(fullResponse)
         IN IF xml.panic THEN xml
            ELSE LET fn == ParseFunctionObject(fullResponse, xml)
                 IN IF fn.panic THEN fn
                    ELSE ParseToolLine(fullResponse, fn)

(***************************************************************************)
(* The environment: user inputs, model replies, tool outcomes.             *)
(***************************************************************************)
\* what getUserInput can return with ok = true
Inputs == {<<>>, <<"list", SP, "files">>}

\* replies of the backend, each a sequence of chunks (a chunk is a string)
R_PLAIN == << <<"The", SP>>, <<"answer">> >>
R_BLOCK == << <<"ok", NL, TOOL_OPEN>>, <<J_LISTDIR, TOOL_CLOSE>> >>
R_UNKNOWN == << <<TOOL_OPEN, J_UNKNOWN, TOOL_CLOSE>> >>
R_LINE == << <<LINE_MARK, SP, "read_file", RBRACKET, NL>>, <<INPUT_MARK, SP, A_PATH>> >>
R_FUNC == << <<J_FUNC>> >>
R_REVERSED == << <<TOOL_CLOSE, SP, TOOL_OPEN>> >>
Replies == {R_PLAIN, R_BLOCK, R_UNKNOWN, R_LINE, R_FUNC, R_REVERSED}
\* replies to a tool result
Replies2 == {R_PLAIN, R_LINE}

\* what a tool's Execute can return as its result text
ToolResults == {<<"main.go", NL, "go.mod">>}

\* GetName of the model in use
ModelName == "ollama-llama2"

(***************************************************************************)
(* State.                                                                  *)
(***************************************************************************)
VARIABLES
    pc,             \* where the goroutine running Agent.Run is
    ret,            \* what Agent.Run returned: "none" while it runs
    tools,          \* a.tools: the names of the tools, in order
    advertised,     \* the tools last given to model.SetTools
    showStats,      \* a.showStats
    stats,          \* a.stats: TotalInputTokens, TotalOutputTokens
    messages,       \* the transcript
    history,        \* the records of the chat history file
    uuidCtr,        \* the number of uuid.New() calls so far
    input,          \* input of the current loop iteration
    conversationID, \* conversationID of the current exchange
    fullResponse,   \* the accumulator of the streamed chunks
    pending,        \* chunks the running StreamResponse has yet to deliver
    toolName,       \* result of detection
    toolInput,      \* result of detection
    result,         \* what tool.Execute returned
    execErr,        \* whether tool.Execute returned an error
    calls,          \* log: each StreamResponse call, with the transcript given to
                    \* it, the text the backend answers and what the call returned
    executed,       \* log: the Execute calls, with the exchange they belong to
    turn,           \* number of exchanges started (non-empty inputs read)
    discarded,      \* number of empty inputs discarded
    spinner,        \* the spinner goroutine: where it is, and its frame index i
    terminal,       \* log: what the spinner and the steps of Run around
                    \* Execute wrote to the terminal in the current exchange
    storage,        \* ChatStorage: the history file and the SaveMessage calls on it
    adapter,        \* a model adapter: one StreamResponse / GenerateResponse call
    startup,        \* main: flags, environment and how far main has come
    listDir,        \* ListDirTool: one Execute call and the directories it read
    editFile        \* edit_file: one Execute call and the files it works on

vars == <<pc, ret, tools, advertised, showStats, stats, messages, history, uuidCtr,
          input, conversationID, fullResponse, pending, toolName, toolInput,
          result, execErr, calls, executed, turn, discarded, spinner, terminal,
          storage, adapter, startup, listDir, editFile>>

\* the state of the parts of the program outside Agent.Run
outside == <<storage, adapter, startup, listDir, editFile>>

\* the parts outside Agent.Run when they are not looked at
Unused == [pc |-> "unused"]
OutsideUnused ==
    /\ storage = Unused
    /\ adapter = Unused
    /\ startup = Unused
    /\ listDir = Unused
    /\ editFile = Unused

\* number of empty inputs one run goes through
MaxEmpty == 1
\* number of frames the spinner writes during one tool execution
MaxFrames == 2

\* the tools main gives to NewAgent
MainTools == << <<"read_file">>, <<"list_files">>, <<"edit_file">>, <<"search_file">>, <<"find_file">> >>
\* the tools Agent.Run installs ("Initialize tools")
RunTools == << <<"read_file">>, <<"list_dir">>, <<"search_file">>, <<"summarize_file">> >>

Message(role, content) == [role |-> role, content |-> content]

RECURSIVE ToolDescriptions(_)
ToolDescriptions(ts) ==
    IF ts = <<>> THEN <<>>
    ELSE <<"- ">> \o Head(ts) \o <<": description">>
         \o (IF Len(ts) > 1 THEN <<NL>> ELSE <<>>) \o ToolDescriptions(Tail(ts))

\* the system message: one "- name: description" line per tool of a.tools
SystemMessage(ts, modelName) ==
    IF modelName \in {"ollama-llama2"}
    THEN <<"<system>", NL>> \o ToolDescriptions(ts) \o <<NL, "</system>">>
    ELSE <<"You are a helpful AI assistant", NL>> \o ToolDescriptions(ts)

\* uuid.New(): the n-th call returns a value no earlier call returned
NewUUID(n) == n + 1

\* int64(float64(n) * 1.3)
EstimateTokens(n) == (13 * n) \div 10

\* mutant of SaveMessage: the record's own id is stored as its conversation id
SaveMessageOwnID(hist, msg, modelName, usage, convID, id, ok) ==
    IF ok
    THEN Append(hist, [id |-> id, conversation_id |-> id, role |-> msg.role,
                       content |-> msg.content, model |-> modelName, usage |-> usage])
    ELSE hist

\* ChatStorage.SaveMessage: appends one record to the list in the file when
\* reading, parsing and writing succeed (ok), and leaves the file alone otherwise
SaveMessage(hist, msg, modelName, usage, convID, id, ok) ==
    IF ok
    THEN Append(hist, [id |-> id, conversation_id |-> convID, role |-> msg.role,
                       content |-> msg.content, model |-> modelName, usage |-> usage])
    ELSE hist

Usage(inTok, outTok) == [input_tokens |-> inTok, output_tokens |-> outTok]

\* the concatenation of the chunks of a reply
RECURSIVE Concat(_)
Concat(chunks) == IF chunks = <<>> THEN <<>> ELSE Head(chunks) \o Concat(Tail(chunks))

(***************************************************************************)
(* Init: the state NewAgent leaves.                                        *)
(***************************************************************************)
AgentInit ==
    /\ pc = "start"
    /\ ret = "none"
    /\ tools = MainTools
    /\ advertised = MainTools
    /\ showStats \in BOOLEAN
    /\ stats = [TotalInputTokens |-> 0, TotalOutputTokens |-> 0]
    /\ messages = <<>>
    /\ history = <<>>
    /\ uuidCtr = 0
    /\ input = <<>>
    /\ conversationID = 0
    /\ fullResponse = <<>>
    /\ pending = <<>>
    /\ toolName = <<>>
    /\ toolInput = <<>>
    /\ result = <<>>
    /\ execErr = FALSE
    /\ calls = <<>>
    /\ executed = <<>>
    /\ turn = 0
    /\ discarded = 0
    /\ spinner = [pc |-> "idle", i |-> 0]
    /\ terminal = <<>>

Init == AgentInit /\ OutsideUnused

(***************************************************************************)
(* Agent.Run.                                                              *)
(***************************************************************************)
\* the part of Run before the loop: system message, then "Initialize tools"
RunInit ==
    /\ pc = "start"
    /\ messages' = <<Message("system", SystemMessage(tools, ModelName))>>
    /\ tools' = RunTools
    /\ advertised' = RunTools
    /\ pc' = "input"
    /\ UNCHANGED <<ret, showStats, outside, stats, history, uuidCtr, input, conversationID,
                   fullResponse, pending, toolName, toolInput, result, execErr,
                   calls, executed, turn, discarded, spinner, terminal>>

\* a log entry for a StreamResponse call that has just been made
Call(t, msgs, reply) ==
    [turn |-> t, messages |-> msgs, reply |-> Concat(reply), outcome |-> "running"]

\* the log with the outcome of the running (the last) call filled in
Returned(log, outcome) == [log EXCEPT ![Len(log)].outcome = outcome]

\* mutant of IsDiscarded: the empty input is not discarded
IsDiscardedNever(in) == FALSE

\* if input == "" { continue }
IsDiscarded(in) == in = <<>>

\* mutant of EndOfStream: the end of the input is returned as an error
EndOfStreamIsError(in) ==
    /\ in = <<>>
    /\ input' = in
    /\ pc' = "done"
    /\ ret' = "input closed"
    /\ UNCHANGED <<tools, advertised, showStats, outside, stats, messages, history,
                   uuidCtr, conversationID, fullResponse, pending,
                   toolName, toolInput, result, execErr, calls, executed,
                   turn, discarded, spinner, terminal>>

\* if !ok { return nil }: getUserInput returned ("", false)
EndOfStream(in) ==
    /\ in = <<>>
    /\ input' = in
    /\ pc' = "done"
    /\ ret' = "nil"
    /\ UNCHANGED <<tools, advertised, showStats, outside, stats, messages, history,
                   uuidCtr, conversationID, fullResponse, pending,
                   toolName, toolInput, result, execErr, calls, executed,
                   turn, discarded, spinner, terminal>>

\* the top of the loop, up to the first StreamResponse call: getUserInput
\* returns (in, ok), in one of inputs when ok; the backend will answer the call
\* with one of replies
ReadInputFrom(inputs, replies, maxTurns) ==
    /\ pc = "input"
    /\ \E ok \in BOOLEAN, in \in inputs \cup {<<>>} :
        IF ~ok
        THEN EndOfStream(in)
        ELSE IF IsDiscarded(in)
        THEN /\ in \in inputs
             /\ discarded < MaxEmpty
             /\ discarded' = discarded + 1
             /\ input' = in
             /\ UNCHANGED <<pc, ret, tools, advertised, showStats, outside, stats, messages,
                            history, uuidCtr, conversationID, fullResponse, pending,
                            toolName, toolInput, result, execErr, calls, executed, turn,
                            spinner, terminal>>
        ELSE /\ turn < maxTurns
             /\ turn' = turn + 1
             /\ input' = in
             /\ conversationID' = NewUUID(uuidCtr)
             /\ uuidCtr' = uuidCtr + 2
             /\ messages' = Append(messages, Message("user", in))
             /\ \E saveOk \in BOOLEAN :
                 history' = SaveMessage(history, Message("user", in), ModelName,
                                        Usage(Fields(in), 0), NewUUID(uuidCtr),
                                        NewUUID(uuidCtr + 1), saveOk)
             /\ fullResponse' = <<>>
             /\ toolName' = <<>>
             /\ toolInput' = <<>>
             /\ result' = <<>>
             /\ execErr' = FALSE
             /\ \E reply \in replies :
                 /\ pending' = reply
                 /\ calls' = Append(calls, Call(turn + 1, messages', reply))
             /\ pc' = "stream1"
             /\ terminal' = <<>>
             /\ UNCHANGED <<ret, tools, advertised, showStats, outside, stats, executed,
                            discarded, spinner>>

ReadInput == ReadInputFrom(Inputs, Replies, MaxTurns)

\* mutant of OnChunk: the chunk is put in front of what has arrived so far
OnChunkPrepends ==
    /\ pc \in {"stream1", "stream2"}
    /\ pending /= <<>>
    /\ fullResponse' = Head(pending) \o fullResponse
    /\ pending' = Tail(pending)
    /\ UNCHANGED <<pc, ret, tools, advertised, showStats, outside, stats, messages, history,
                   uuidCtr, input, conversationID, toolName, toolInput, result,
                   execErr, calls, executed, turn, discarded, spinner, terminal>>

\* StreamResponse delivers the next chunk: onChunk appends it to fullResponse
OnChunk ==
    /\ pc \in {"stream1", "stream2"}
    /\ pending /= <<>>
    /\ fullResponse' = fullResponse \o Head(pending)
    /\ pending' = Tail(pending)
    /\ UNCHANGED <<pc, ret, tools, advertised, showStats, outside, stats, messages, history,
                   uuidCtr, input, conversationID, toolName, toolInput, result,
                   execErr, calls, executed, turn, discarded, spinner, terminal>>

\* mutant of StreamReturn: the reply to a tool result is scanned as well
StreamReturnRescans ==
    /\ pc \in {"stream1", "stream2"}
    /\ pending = <<>>
    /\ pc' = "detect"
    /\ calls' = Returned(calls, "nil")
    /\ UNCHANGED <<ret, tools, advertised, showStats, outside, stats, messages, history,
                   uuidCtr, input, conversationID, fullResponse, pending, toolName,
                   toolInput, result, execErr, executed, turn, discarded, spinner,
                   terminal>>

\* StreamResponse returns nil after the last chunk
StreamReturn ==
    /\ pc \in {"stream1", "stream2"}
    /\ pending = <<>>
    /\ pc' = IF pc = "stream1" THEN "detect" ELSE "finish"
    /\ calls' = Returned(calls, "nil")
    /\ UNCHANGED <<ret, tools, advertised, showStats, outside, stats, messages, history,
                   uuidCtr, input, conversationID, fullResponse, pending, toolName,
                   toolInput, result, execErr, executed, turn, discarded, spinner,
                   terminal>>

\* mutant of StreamError: the error only ends the turn, the loop goes on
StreamErrorSkipsTurn ==
    /\ pc \in {"stream1", "stream2"}
    /\ pc' = "input"
    /\ pending' = <<>>
    /\ calls' = Returned(calls, "error")
    /\ UNCHANGED <<ret, tools, advertised, showStats, outside, stats, messages, history, uuidCtr,
                   input, conversationID, fullResponse, toolName, toolInput, result,
                   execErr, executed, turn, discarded, spinner, terminal>>

\* StreamResponse returns an error, before, between or after chunks: Run returns it
StreamError ==
    /\ pc \in {"stream1", "stream2"}
    /\ pc' = "done"
    /\ ret' = IF pc = "stream1" THEN "error getting model response"
              ELSE "error getting model response to tool result"
    /\ pending' = <<>>
    /\ calls' = Returned(calls, "error")
    /\ UNCHANGED <<tools, advertised, showStats, outside, stats, messages, history, uuidCtr,
                   input, conversationID, fullResponse, toolName, toolInput, result,
                   execErr, executed, turn, discarded, spinner, terminal>>

\* "Check if the response contains tool usage": the detection step, run on the
\* accumulated reply once the first StreamResponse has returned nil
Detect ==
    /\ pc = "detect"
    /\ LET d == DetectToolCall(fullResponse)
       IN /\ pc' = IF d.panic THEN "panic" ELSE "dispatch"
          /\ toolName' = d.toolName
          /\ toolInput' = d.toolInput
    /\ UNCHANGED <<ret, tools, advertised, showStats, outside, stats, messages, history,
                   uuidCtr, input, conversationID, fullResponse, pending, result,
                   execErr, calls, executed, turn, discarded, terminal, spinner>>

\* for _, tool := range a.tools { if tool.GetName() == toolName: the index of
\* the first tool of that name, 0 if there is none
RECURSIVE LookupFrom(_, _, _)
LookupFrom(ts, name, i) ==
    IF i > Len(ts) THEN 0
    ELSE IF ts[i] = name THEN i
    ELSE LookupFrom(ts, name, i + 1)
\* mutant of LookupTool: a name no tool has falls back to the first tool
LookupToolOrFirst(ts, name) ==
    IF name = <<>> THEN 0
    ELSE IF LookupFrom(ts, name, 1) = 0 THEN 1 ELSE LookupFrom(ts, name, 1)

LookupTool(ts, name) == IF name = <<>> THEN 0 ELSE LookupFrom(ts, name, 1)

\* var spinnerFrames: the ten glyphs of the animation, by their position
spinnerFrames == <<"frame0", "frame1", "frame2", "frame3", "frame4", "frame5",
                   "frame6", "frame7", "frame8", "frame9">>

\* an entry of the terminal log: who wrote, and what
Written(by, text) == [by |-> by, text |-> text]

\* the number of frames the spinner has written in the current exchange
FramesWritten == Cardinality({k \in 1..Len(terminal) : terminal[k].by = "spinner"})

\* go func() { i := 0; for { select ... } }(): the goroutine is at its select
StartSpinner == [pc |-> "select", i |-> 0]

\* if toolName != "" { for ... }: a tool is found and the spinner goroutine is
\* started, or the loop ends without one
Dispatch ==
    /\ pc = "dispatch"
    /\ pc' = IF LookupTool(tools, toolName) /= 0 THEN "exec" ELSE "finish"
    /\ spinner' = IF LookupTool(tools, toolName) /= 0 THEN StartSpinner ELSE spinner
    /\ UNCHANGED <<ret, tools, advertised, showStats, outside, stats, messages, history,
                   uuidCtr, input, conversationID, fullResponse, pending, toolName,
                   toolInput, result, execErr, calls, executed, turn, discarded,
                   terminal>>

\* mutant of ExecuteTool: Execute is called without the extracted payload
ExecuteToolDropsInput ==
    /\ pc = "exec"
    /\ \E fails \in BOOLEAN, res \in ToolResults :
        /\ execErr' = fails
        /\ result' = IF fails THEN <<>> ELSE res
    /\ executed' = Append(executed, [turn |-> turn,
                                     tool |-> tools[LookupTool(tools, toolName)],
                                     input |-> <<>>])
    /\ pc' = "executed"
    /\ UNCHANGED <<ret, tools, advertised, showStats, outside, stats, messages, history,
                   uuidCtr, input, conversationID, fullResponse, pending, toolName,
                   toolInput, calls, turn, discarded, spinner, terminal>>

\* result, err := tool.Execute(json.RawMessage(toolInput))
ExecuteTool ==
    /\ pc = "exec"
    /\ \E fails \in BOOLEAN, res \in ToolResults :
        /\ execErr' = fails
        /\ result' = IF fails THEN <<>> ELSE res
    /\ executed' = Append(executed, [turn |-> turn,
                                     tool |-> tools[LookupTool(tools, toolName)],
                                     input |-> toolInput])
    /\ pc' = "executed"
    /\ UNCHANGED <<ret, tools, advertised, showStats, outside, stats, messages, history,
                   uuidCtr, input, conversationID, fullResponse, pending, toolName,
                   toolInput, calls, turn, discarded, spinner, terminal>>

\* the spinner goroutine, select with no sender waiting on done: the default
\* branch is taken (the coordinator waits on done exactly when it is at
\* "done <- true", after Execute has returned)
SpinnerDefault ==
    /\ spinner.pc = "select"
    /\ pc /= "executed"
    /\ FramesWritten < MaxFrames
    /\ spinner' = [spinner EXCEPT !.pc = "print"]
    /\ UNCHANGED <<pc, ret, tools, advertised, showStats, outside, stats, messages, history,
                   uuidCtr, input, conversationID, fullResponse, pending, toolName,
                   toolInput, result, execErr, calls, executed, turn, discarded,
                   terminal>>

\* fmt.Printf("\r%s%s%s", colorYellow, spinnerFrames[i], colorReset);
\* i = (i + 1) % len(spinnerFrames)
SpinnerPrint ==
    /\ spinner.pc = "print"
    /\ terminal' = Append(terminal, Written("spinner", <<"\r", spinnerFrames[spinner.i + 1]>>))
    /\ spinner' = [pc |-> "sleep", i |-> (spinner.i + 1) % Len(spinnerFrames)]
    /\ UNCHANGED <<pc, ret, tools, advertised, showStats, outside, stats, messages, history,
                   uuidCtr, input, conversationID, fullResponse, pending, toolName,
                   toolInput, result, execErr, calls, executed, turn, discarded>>

\* mutant of SpinnerWake: the goroutine returns after its sleep instead of
\* going back to the select
SpinnerWakeReturns ==
    /\ spinner.pc = "sleep"
    /\ spinner' = [spinner EXCEPT !.pc = "returned"]
    /\ UNCHANGED <<pc, ret, tools, advertised, showStats, outside, stats, messages, history,
                   uuidCtr, input, conversationID, fullResponse, pending, toolName,
                   toolInput, result, execErr, calls, executed, turn, discarded,
                   terminal>>

\* time.Sleep(100 * time.Millisecond) is over: back to the select
SpinnerWake ==
    /\ spinner.pc = "sleep"
    /\ spinner' = [spinner EXCEPT !.pc = "select"]
    /\ UNCHANGED <<pc, ret, tools, advertised, showStats, outside, stats, messages, history,
                   uuidCtr, input, conversationID, fullResponse, pending, toolName,
                   toolInput, result, execErr, calls, executed, turn, discarded,
                   terminal>>

\* mutant of StopSpinner: done is buffered, the send does not wait for the
\* spinner to receive
StopSpinnerAsync ==
    /\ pc = "executed"
    /\ pc' = "stopped"
    /\ UNCHANGED <<ret, tools, advertised, showStats, outside, stats, messages, history,
                   uuidCtr, input, conversationID, fullResponse, pending, toolName,
                   toolInput, result, execErr, calls, executed, turn, discarded,
                   spinner, terminal>>

\* done <- true meets case <-done: done is unbuffered, so the send completes
\* only when the spinner, at its select, receives; the spinner then returns
StopSpinner ==
    /\ pc = "executed"
    /\ spinner.pc = "select"
    /\ pc' = "stopped"
    /\ spinner' = [pc |-> "returned", i |-> 0]
    /\ UNCHANGED <<ret, tools, advertised, showStats, outside, stats, messages, history,
                   uuidCtr, input, conversationID, fullResponse, pending, toolName,
                   toolInput, result, execErr, calls, executed, turn, discarded,
                   terminal>>

\* mutant of ResultMessage: the result is fed back without its delimiters
ResultMessageBare(res) == res

\* fmt.Sprintf("<result>%s</result>", result)
ResultMessage(res) == <<RESULT_OPEN>> \o res \o <<RESULT_CLOSE>>

\* mutant of ToolRoundTrip: the two messages take the place of the last one
ToolRoundTripOverwrites(msgs, reply, res) ==
    SubSeq(msgs, 1, Len(msgs) - 1) \o
        <<Message("assistant", reply), Message("user", ResultMessage(res))>>

\* mutant of ToolRoundTrip: the raw reply is not kept, only the result
ToolRoundTripResultOnly(msgs, reply, res) ==
    Append(msgs, Message("user", ResultMessage(res)))

\* the two messages appended after a successful Execute
ToolRoundTrip(msgs, reply, res) ==
    msgs \o <<Message("assistant", reply), Message("user", ResultMessage(res))>>

\* mutant of HandleResult: the accumulator is emptied before the second stream
HandleResultResetsReply ==
    /\ pc = "stopped"
    /\ IF execErr
       THEN /\ pc' = "done"
            /\ ret' = "error executing tool"
            /\ terminal' = Append(terminal, Written("run", <<"\r">>))
            /\ UNCHANGED <<messages, calls, pending, fullResponse>>
       ELSE /\ terminal' = terminal \o <<Written("run", <<"\r">>),
                                        Written("run", ResultMessage(result) \o <<NL>>)>>
            /\ messages' = ToolRoundTrip(messages, fullResponse, result)
            /\ \E reply \in Replies2 :
                /\ pending' = reply
                /\ calls' = Append(calls, Call(turn, messages', reply))
            /\ fullResponse' = <<>>
            /\ pc' = "stream2"
            /\ UNCHANGED ret
    /\ UNCHANGED <<tools, advertised, showStats, outside, stats, history, uuidCtr, input,
                   conversationID, toolName, toolInput, result,
                   execErr, executed, turn, discarded, spinner>>

\* mutant of HandleResult: the raw reply and the result message are persisted
\* too
HandleResultPersistsRoundTrip ==
    /\ pc = "stopped"
    /\ IF execErr
       THEN /\ pc' = "done"
            /\ ret' = "error executing tool"
            /\ terminal' = Append(terminal, Written("run", <<"\r">>))
            /\ UNCHANGED <<messages, calls, pending, history, uuidCtr>>
       ELSE /\ terminal' = terminal \o <<Written("run", <<"\r">>),
                                        Written("run", ResultMessage(result) \o <<NL>>)>>
            /\ messages' = ToolRoundTrip(messages, fullResponse, result)
            /\ history' = SaveMessage(
                    SaveMessage(history, Message("assistant", fullResponse), ModelName,
                                Usage(0, Fields(fullResponse)), conversationID,
                                NewUUID(uuidCtr), TRUE),
                    Message("user", ResultMessage(result)), ModelName, Usage(0, 0),
                    conversationID, NewUUID(uuidCtr + 1), TRUE)
            /\ uuidCtr' = uuidCtr + 2
            /\ \E reply \in Replies2 :
                /\ pending' = reply
                /\ calls' = Append(calls, Call(turn, messages', reply))
            /\ pc' = "stream2"
            /\ UNCHANGED ret
    /\ UNCHANGED <<tools, advertised, showStats, outside, stats, input,
                   conversationID, fullResponse, toolName, toolInput, result,
                   execErr, executed, turn, discarded, spinner>>

\* mutant of HandleResult: the error of Execute is dropped and the (empty)
\* result is fed back to the model
HandleResultSwallowsError ==
    /\ pc = "stopped"
    /\ terminal' = terminal \o <<Written("run", <<"\r">>),
                                 Written("run", ResultMessage(result) \o <<NL>>)>>
    /\ messages' = ToolRoundTrip(messages, fullResponse, result)
    /\ \E reply \in Replies2 :
        /\ pending' = reply
        /\ calls' = Append(calls, Call(turn, messages', reply))
    /\ pc' = "stream2"
    /\ UNCHANGED <<ret, tools, advertised, showStats, outside, stats, history, uuidCtr, input,
                   conversationID, fullResponse, toolName, toolInput, result,
                   execErr, executed, turn, discarded, spinner>>

\* after the spinner is stopped: the spinner line is cleared; an error of
\* Execute makes Run return; otherwise the result is printed, the raw reply and
\* the result are appended and the model is called again
HandleResult ==
    /\ pc = "stopped"
    /\ IF execErr
       THEN /\ pc' = "done"
            /\ ret' = "error executing tool"
            /\ terminal' = Append(terminal, Written("run", <<"\r">>))
            /\ UNCHANGED <<messages, calls, pending>>
       ELSE /\ terminal' = terminal \o <<Written("run", <<"\r">>),
                                        Written("run", ResultMessage(result) \o <<NL>>)>>
            /\ messages' = ToolRoundTrip(messages, fullResponse, result)
            /\ \E reply \in Replies2 :
                /\ pending' = reply
                /\ calls' = Append(calls, Call(turn, messages', reply))
            /\ pc' = "stream2"
            /\ UNCHANGED ret
    /\ UNCHANGED <<tools, advertised, showStats, outside, stats, history, uuidCtr, input,
                   conversationID, fullResponse, toolName, toolInput, result,
                   execErr, executed, turn, discarded, spinner>>

\* mutant of UpdateStats: the totals are assigned (=) instead of added to (+=)
UpdateStatsAssigns(st, show, in, reply) ==
    IF show
    THEN [TotalInputTokens |-> EstimateTokens(Fields(in)),
          TotalOutputTokens |-> EstimateTokens(Fields(reply))]
    ELSE st

\* "Update statistics": only with showStats
UpdateStats(st, show, in, reply) ==
    IF show
    THEN [TotalInputTokens |-> st.TotalInputTokens + EstimateTokens(Fields(in)),
          TotalOutputTokens |-> st.TotalOutputTokens + EstimateTokens(Fields(reply))]
    ELSE st

\* mutant of Finish: a failed SaveMessage makes Run return the error
FinishAbortsOnSaveError ==
    /\ pc = "finish"
    /\ stats' = UpdateStats(stats, showStats, input, fullResponse)
    /\ messages' = Append(messages, Message("assistant", fullResponse))
    /\ \E saveOk \in BOOLEAN :
        /\ history' = SaveMessage(history, Message("assistant", fullResponse), ModelName,
                                  Usage(0, Fields(fullResponse)), conversationID,
                                  NewUUID(uuidCtr), saveOk)
        /\ pc' = IF saveOk THEN "input" ELSE "done"
        /\ ret' = IF saveOk THEN ret ELSE "failed to save assistant message"
    /\ uuidCtr' = uuidCtr + 1
    /\ UNCHANGED <<tools, advertised, showStats, outside, input, conversationID,
                   fullResponse, pending, toolName, toolInput, result, execErr,
                   calls, executed, turn, discarded, spinner, terminal>>

\* the end of the loop body: statistics, the assistant message, its record
Finish ==
    /\ pc = "finish"
    /\ stats' = UpdateStats(stats, showStats, input, fullResponse)
    /\ messages' = Append(messages, Message("assistant", fullResponse))
    /\ \E saveOk \in BOOLEAN :
        history' = SaveMessage(history, Message("assistant", fullResponse), ModelName,
                               Usage(0, Fields(fullResponse)), conversationID,
                               NewUUID(uuidCtr), saveOk)
    /\ uuidCtr' = uuidCtr + 1
    /\ pc' = "input"
    /\ UNCHANGED <<ret, tools, advertised, showStats, outside, input, conversationID,
                   fullResponse, pending, toolName, toolInput, result, execErr,
                   calls, executed, turn, discarded, spinner, terminal>>

Next ==
    \/ RunInit
    \/ ReadInput
    \/ OnChunk
    \/ StreamReturn
    \/ StreamError
    \/ Detect
    \/ Dispatch
    \/ ExecuteTool
    \/ StopSpinner
    \/ HandleResult
    \/ Finish

\* Run with the spinner goroutine scheduled only to receive from done: the
\* spinner touches nothing but its own position and the terminal
Spec == Init /\ [][Next]_vars

(***************************************************************************)
(* DetectSpec: one exchange of the same loop in which the backend answers  *)
(* the first call with any text that is a concatenation of up to MaxParts  *)
(* fragments (every token on its own, and a few longer phrases), delivered *)
(* as one chunk.                                                           *)
(***************************************************************************)
P_BLOCK == <<TOOL_OPEN, J_LISTDIR, TOOL_CLOSE>>
P_BLOCK_UNKNOWN == <<TOOL_OPEN, J_UNKNOWN, TOOL_CLOSE>>
P_LINE == <<LINE_MARK, SP, "read_file", RBRACKET, NL>>
P_INPUT == <<INPUT_MARK, SP, A_PATH>>

Fragments ==
    {<<t>> : t \in {TOOL_OPEN, TOOL_CLOSE, LINE_MARK, RBRACKET, NL, SP, INPUT_MARK,
                    "hi", "list_dir", TOOL_CALLS, J_LISTDIR, J_NONAME, J_BAD,
                    J_FUNC, J_FUNC_TC}}
    \cup {P_BLOCK, P_BLOCK_UNKNOWN, P_LINE, P_INPUT}

RECURSIVE Texts(_)
Texts(n) ==
    IF n = 0 THEN {<<>>}
    ELSE LET shorter == Texts(n - 1)
         IN shorter \cup {t \o f : t \in shorter, f \in Fragments}

AnyReplies == {<<t>> : t \in Texts(MaxParts)}

ReadInputAny == ReadInputFrom({<<"list", SP, "files">>}, AnyReplies, 1)

DetectInit == Init /\ showStats

DetectNext ==
    \/ RunInit
    \/ ReadInputAny
    \/ OnChunk
    \/ StreamReturn
    \/ StreamError
    \/ Detect
    \/ Dispatch
    \/ ExecuteTool
    \/ StopSpinner
    \/ HandleResult
    \/ Finish

DetectSpec == DetectInit /\ [][DetectNext]_vars

(***************************************************************************)
(* SpinnerSpec: one exchange of the loop with the spinner goroutine running *)
(* at its own pace, in every interleaving of its steps (select, Printf,    *)
(* Sleep) with the steps of Run.                                           *)
(***************************************************************************)
ReadInputOnce == ReadInputFrom({<<"list", SP, "files">>}, Replies, 1)

SpinnerNext ==
    \/ RunInit
    \/ ReadInputOnce
    \/ OnChunk
    \/ StreamReturn
    \/ StreamError
    \/ Detect
    \/ Dispatch
    \/ ExecuteTool
    \/ SpinnerDefault
    \/ SpinnerPrint
    \/ SpinnerWake
    \/ StopSpinner
    \/ HandleResult
    \/ Finish

SpinnerSpec == Init /\ [][SpinnerNext]_vars

(***************************************************************************)
(* What the wire formats are, read off the reply text alone.               *)
(***************************************************************************)
\* the JSON documents that are an object with a "name" and an "arguments" field
WellFormedCalls == {J_LISTDIR, J_READ, J_UNKNOWN}

\* the (name, arguments) pairs of the well-formed delimited blocks of a text
BlocksOf(r) ==
    {[name |-> JSONDoc(r[i + 1]).name, arguments |-> JSONDoc(r[i + 1]).arguments] :
        i \in {j \in 1..(Len(r) - 2) :
                 r[j] = TOOL_OPEN /\ r[j + 1] \in WellFormedCalls /\ r[j + 2] = TOOL_CLOSE}}

\* some line of the text begins with "[Tool:"
HasToolLine(r) == \E i \in 1..Len(Split(r)) : HasPrefix(Split(r)[i], LINE_MARK)

\* the trimmed text is one {"function": {"name", "arguments"}} object
FunctionObjects == {J_FUNC, J_FUNC_TC}
IsFunctionObject(r) == Len(TrimSpace(r)) = 1 /\ TrimSpace(r)[1] \in FunctionObjects

\* the text has nothing of any of the three formats: no "<tool>" followed
\* later by "</tool>", no leading '{', no line beginning with "[Tool:"
MatchesNoFormat(r) ==
    /\ ~ \E i, j \in 1..Len(r) : i < j /\ r[i] = TOOL_OPEN /\ r[j] = TOOL_CLOSE
    /\ ~ (TrimSpace(r) /= <<>> /\ StartsWithBrace(TrimSpace(r)[1]))
    /\ ~ HasToolLine(r)

\* the detection step has run on fullResponse
Detected == pc \in {"dispatch", "panic"}

\* C1: every reply that contains a well-formed <tool>{"name": N, "arguments":
\* A}</tool> block, whatever surrounds the block, makes detection yield the
\* pair (N, A) of such a block
C1_BlockExtracted ==
    (Detected /\ BlocksOf(fullResponse) /= {}) =>
        /\ pc = "dispatch"
        /\ [name |-> toolName, arguments |-> toolInput] \in BlocksOf(fullResponse)

\* C2: detection never raises: whatever the reply, the detection step ends
\* with "no call" or a pair, and never panics
C2_DetectionNeverRaises == pc /= "panic"

\* C3: when a reply holds both a well-formed delimited block and a line
\* beginning with "[Tool:", the call that is dispatched is a block's
C3_BlockHasPriority ==
    (pc = "exec" /\ BlocksOf(fullResponse) /= {} /\ HasToolLine(fullResponse)) =>
        [name |-> toolName, arguments |-> toolInput] \in BlocksOf(fullResponse)

\* C4: a reply that, trimmed, is one {"function": {"name": N, "arguments": A}}
\* object and holds no delimited block makes detection yield (N, A)
C4_FunctionObjectRecognized ==
    (Detected /\ IsFunctionObject(fullResponse) /\ BlocksOf(fullResponse) = {}) =>
        /\ pc = "dispatch"
        /\ toolName = JSONDoc(TrimSpace(fullResponse)[1]).fname
        /\ toolInput = JSONDoc(TrimSpace(fullResponse)[1]).farguments

\* C5: a reply that matches none of the three formats executes no tool, leads
\* to no second model call, and is appended unmodified as the one assistant
\* message of the exchange
C5_PlainReplyIsContent ==
    /\ (Detected /\ MatchesNoFormat(fullResponse)) =>
          (pc = "dispatch" /\ \A i \in 1..Len(tools) : tools[i] /= toolName)
    /\ (pc = "input" /\ turn = 1 /\ MatchesNoFormat(calls[1].reply)) =>
          /\ executed = <<>>
          /\ Len(calls) = 1
          /\ messages = Append(calls[1].messages, Message("assistant", calls[1].reply))

(***************************************************************************)
(* The turn coordinator (checked under Spec).                              *)
(***************************************************************************)
LastCall == calls[Len(calls)]
CallsOfTurn(t) == {k \in 1..Len(calls) : calls[k].turn = t}
FirstCallOf(t) == CHOOSE k \in CallsOfTurn(t) : \A j \in CallsOfTurn(t) : k <= j
ExecutedInTurn(t) == {k \in 1..Len(executed) : executed[k].turn = t}
ModelErrors == {"error getting model response",
                "error getting model response to tool result"}

\* detection yielded a name that no tool of a.tools has
UnknownToolDetected ==
    toolName /= <<>> /\ \A i \in 1..Len(tools) : tools[i] /= toolName

\* C6: a detected name that no tool has: nothing is executed, Run returns no
\* error, the model is not called again, the raw reply becomes the assistant
\* message of the exchange and the loop is back at reading input
C6_UnknownToolIsInert ==
    UnknownToolDetected =>
        /\ pc \in {"dispatch", "finish", "input", "done"}
        /\ ret \in {"none", "nil"}
        /\ ExecutedInTurn(turn) = {}
        /\ Cardinality(CallsOfTurn(turn)) = 1
        /\ pc \in {"input", "done"} =>
              messages = Append(LastCall.messages, Message("assistant", LastCall.reply))

C6_Witness ==
    UnknownToolDetected /\ pc = "input" /\ messages[Len(messages)].role = "assistant"

\* an exchange with a successful tool execution and a successful second call
\* has just been completed
RoundTripDone ==
    pc = "input" /\ turn >= 1 /\ ExecutedInTurn(turn) /= {} /\ ~execErr

\* C7: a completed tool round trip adds exactly four messages to the
\* transcript: user(input), assistant(raw first reply), user(<result>...
\* </result>), assistant(final)
C7_RoundTripAddsFour ==
    RoundTripDone =>
        LET first == calls[FirstCallOf(turn)]
            n == Len(first.messages)
        IN /\ Len(messages) = (n - 1) + 4
           /\ SubSeq(messages, 1, n) = first.messages
           /\ messages[n].role = "user" /\ messages[n].content \in Inputs \ {<<>>}
           /\ messages[n + 1] = Message("assistant", first.reply)
           /\ messages[n + 2] = Message("user", <<RESULT_OPEN>> \o result \o <<RESULT_CLOSE>>)
           /\ messages[n + 3].role = "assistant"

C7_Witness == RoundTripDone /\ turn = 2

\* the running StreamResponse call returns an error in this step
StreamFails ==
    /\ calls /= <<>>
    /\ Len(calls') = Len(calls)
    /\ LastCall.outcome = "running"
    /\ calls'[Len(calls)].outcome = "error"

\* C8 as claimed: after a StreamResponse error the transcript is kept and the
\* coordinator is back in AwaitingInput for the next user input
C8_LoopResumesAfterModelError ==
    [][StreamFails => (pc' = "input" /\ messages' = messages)]_vars

\* C8 as amended: after a StreamResponse error (first call or the call that
\* follows a tool result) the transcript stays what was passed to that call,
\* statistics and history are untouched, and Run returns the error: the loop
\* has ended and nothing more is read
C8_RunReturnsModelError ==
    [][/\ StreamFails =>
            /\ pc' = "done"
            /\ ret' \in ModelErrors
            /\ messages' = messages
            /\ messages = LastCall.messages
            /\ stats' = stats
            /\ history' = history
       /\ pc = "done" => UNCHANGED vars]_vars

C8_Witness ==
    /\ pc = "done"
    /\ ret = "error getting model response to tool result"
    /\ LastCall.outcome = "error"
    /\ messages[Len(messages)].content = <<RESULT_OPEN>> \o result \o <<RESULT_CLOSE>>

\* C9: when Execute returns an error the turn is aborted with that error,
\* the model is not called again in the exchange, and the transcript ends with
\* the user message of the exchange: neither the raw reply nor a result
\* message is appended
C9_ToolErrorAbortsTurn ==
    execErr =>
        /\ pc \in {"executed", "stopped", "done"}
        /\ pc = "done" => ret = "error executing tool"
        /\ Cardinality(CallsOfTurn(turn)) = 1
        /\ messages = LastCall.messages
        /\ messages[Len(messages)] = Message("user", input)

C9_Witness == execErr /\ pc = "done" /\ turn = 2

\* getUserInput returns ("", true) in this step
EmptyRead == pc = "input" /\ input' = <<>> /\ pc' /= "done"

\* C10: an empty input changes neither transcript, statistics nor history,
\* uses no identifier, calls neither model nor tool, and leaves the
\* coordinator in AwaitingInput
C10_EmptyInputDiscarded ==
    [][EmptyRead =>
          /\ pc' = "input"
          /\ UNCHANGED <<messages, stats, history, uuidCtr, conversationID, calls,
                         executed, turn>>]_vars

C10_Witness == discarded > 0 /\ pc = "input" /\ turn >= 1 /\ input = <<>>

\* detection yielded the name of a tool of a.tools
RegisteredToolDetected == LookupTool(tools, toolName) /= 0

\* C11: a detected call whose name a tool of a.tools has: once the dispatch has
\* gone through, Execute has been called exactly once in the exchange, on
\* the tool of that name and with the extracted payload; before it, not at
\* all; and no exchange ever has more than one Execute call
C11_ExecutedExactlyOnce ==
    /\ \A t \in 1..turn : Cardinality(ExecutedInTurn(t)) <= 1
    /\ RegisteredToolDetected =>
          IF pc \in {"dispatch", "exec"}
          THEN ExecutedInTurn(turn) = {}
          ELSE /\ Cardinality(ExecutedInTurn(turn)) = 1
               /\ \A k \in ExecutedInTurn(turn) :
                     executed[k] = [turn |-> turn, tool |-> toolName, input |-> toolInput]

C11_Witness ==
    /\ RegisteredToolDetected
    /\ pc = "input"
    /\ Len(executed) = 2
    /\ toolInput = <<A_PATH>>
    /\ executed[2].tool = <<"list_dir">>

\* Execute has returned a result in the current exchange and Run has gone on
\* from it
ToolSucceeded ==
    /\ ExecutedInTurn(turn) /= {}
    /\ ~execErr
    /\ pc \in {"stream2", "finish", "input", "done"}

\* C12: after a successful Execute the model is called again exactly once in
\* the exchange, and the transcript given to that second call is the
\* transcript of the first call, then assistant(raw first reply), then
\* user("<result>" + result + "</result>"); until Run has gone on from Execute
\* there is no second call
C12_SecondCallGetsResult ==
    /\ ToolSucceeded =>
          /\ Cardinality(CallsOfTurn(turn)) = 2
          /\ LastCall.turn = turn
          /\ calls[FirstCallOf(turn)].outcome = "nil"
          /\ LastCall.messages =
                calls[FirstCallOf(turn)].messages
                    \o <<Message("assistant", calls[FirstCallOf(turn)].reply),
                         Message("user", <<RESULT_OPEN>> \o result \o <<RESULT_CLOSE>>)>>
    /\ pc \in {"exec", "executed", "stopped"} => Cardinality(CallsOfTurn(turn)) = 1

C12_Witness == ToolSucceeded /\ pc = "finish" /\ turn = 2 /\ LastCall.outcome = "nil"

\* the values uuid.New() has returned so far
UUIDsSoFar == {NewUUID(n) : n \in 0..(uuidCtr - 1)}

\* C13: every record Run writes to the history carries the conversation
\* identifier of the exchange it is written in; the identifier stays the same
\* throughout an exchange, and the identifier of a new exchange is none that
\* an earlier exchange had or that any record carries
C13_TurnIdentifierPairing ==
    [][/\ history' /= history =>
            /\ Len(history') = Len(history) + 1
            /\ SubSeq(history', 1, Len(history)) = history
            /\ history'[Len(history')].conversation_id = conversationID'
       /\ turn' = turn => conversationID' = conversationID
       /\ turn' /= turn =>
            /\ conversationID' /= conversationID
            /\ conversationID' \notin UUIDsSoFar
            /\ \A k \in 1..Len(history) : history[k].conversation_id /= conversationID'
            /\ \A k \in 1..Len(history) : history[k].conversation_id \in UUIDsSoFar
            /\ conversationID \in UUIDsSoFar \cup {0}]_vars

\* two exchanges, each with its user record and its assistant record
C13_Witness ==
    /\ Len(history) = 4
    /\ history[1].role = "user" /\ history[2].role = "assistant"
    /\ history[3].role = "user" /\ history[4].role = "assistant"
    /\ history[1].conversation_id = history[2].conversation_id
    /\ history[3].conversation_id = history[4].conversation_id
    /\ history[1].conversation_id /= history[3].conversation_id

\* SaveMessage is called in this step (its first statement is uuid.New())
SaveAttempted == uuidCtr' /= uuidCtr

\* C14: a step that calls SaveMessage writes one record or, when the call
\* fails, none, and in both cases leaves everything else as it would be: after
\* the user record the user message is in the transcript and the model is
\* called with it; after the assistant record the assistant message is in the
\* transcript, the statistics are updated and the loop reads the next input;
\* Run does not return, and no call of the model or of a tool is added or lost
C14_SaveFailureIsNonFatal ==
    [][SaveAttempted =>
          /\ \/ history' = history
             \/ Len(history') = Len(history) + 1 /\ SubSeq(history', 1, Len(history)) = history
          /\ ret' = "none" /\ ret = "none"
          /\ executed' = executed
          /\ IF turn' /= turn
             THEN /\ pc' = "stream1"
                  /\ messages' = Append(messages, Message("user", input'))
                  /\ stats' = stats
                  /\ Len(calls') = Len(calls) + 1
                  /\ SubSeq(calls', 1, Len(calls)) = calls
                  /\ calls'[Len(calls')].messages = messages'
             ELSE /\ pc' = "input"
                  /\ messages' = Append(messages, Message("assistant", fullResponse))
                  /\ stats' = UpdateStats(stats, showStats, input, fullResponse)
                  /\ calls' = calls]_vars

\* every SaveMessage call of two whole exchanges, one with a tool round
\* trip, has failed
C14_Witness ==
    /\ history = <<>>
    /\ pc = "input"
    /\ turn = 2
    /\ executed /= <<>>
    /\ messages[Len(messages)].role = "assistant"

\* the step completes an exchange: the final assistant message is appended and
\* the loop goes back to reading input
TurnCompletes ==
    /\ pc' = "input"
    /\ pc /= "input"
    /\ turn >= 1
    /\ messages' = Append(messages, Message("assistant", fullResponse))

\* Run returns in this step
RunReturns == pc /= "done" /\ pc' = "done"

\* C15: neither total of the statistics ever decreases; a step that changes
\* them completes an exchange; a step in which Run returns (a model error, a
\* tool error, the end of the input) and the discarding of an empty input
\* leave them as they are
C15_StatsOnlyAtTurnCompletion ==
    [][/\ stats'.TotalInputTokens >= stats.TotalInputTokens
       /\ stats'.TotalOutputTokens >= stats.TotalOutputTokens
       /\ stats' /= stats => TurnCompletes
       /\ RunReturns => stats' = stats
       /\ EmptyRead => stats' = stats]_vars

\* totals counted in a first exchange are still there after an empty input
\* and a second exchange that a model error aborted
C15_Witness ==
    /\ stats.TotalInputTokens > 0
    /\ stats.TotalOutputTokens > 0
    /\ discarded > 0
    /\ turn = 2
    /\ pc = "done"
    /\ ret \in ModelErrors

\* the spinner goroutine is running
SpinnerRuns == spinner.pc \in {"select", "print", "sleep"}

\* C16: in every interleaving of the spinner goroutine and Run, no frame is
\* written after Run has written anything past the stop point (the clearing
\* "\r", the <result> text): once "done <- true" has completed the spinner has
\* returned, and it runs only while Run is at Execute or at the send
C16_SpinnerStopsBeforeResult ==
    /\ \A a, b \in 1..Len(terminal) :
          (a < b /\ terminal[a].by = "run") => terminal[b].by /= "spinner"
    /\ SpinnerRuns => pc \in {"exec", "executed"}
    /\ spinner.pc = "print" => \A a \in 1..Len(terminal) : terminal[a].by = "spinner"

\* the spinner wrote two frames, then Run cleared the line and printed the result
C16_Witness ==
    /\ Len(terminal) = 4
    /\ terminal[1] = Written("spinner", <<"\r", "frame0">>)
    /\ terminal[2] = Written("spinner", <<"\r", "frame1">>)
    /\ terminal[3] = Written("run", <<"\r">>)
    /\ terminal[4].by = "run" /\ terminal[4].text[1] = RESULT_OPEN
    /\ spinner.pc = "returned"

\* the detection step is taken
DetectionRuns == pc = "detect" /\ pc' /= "detect"

\* C17: the detection step is taken only when the one StreamResponse call of
\* the exchange has returned nil, and it works on the concatenation, in
\* arrival order, of all the chunks of that call; a tool name is produced by
\* no other step; and Execute is called only when no StreamResponse call is
\* running
C17_DetectionAfterWholeStream ==
    [][/\ DetectionRuns =>
            /\ LastCall.turn = turn
            /\ Cardinality(CallsOfTurn(turn)) = 1
            /\ LastCall.outcome = "nil"
            /\ pending = <<>>
            /\ fullResponse = LastCall.reply
            /\ pc' /= "panic" =>
                  /\ toolName' = DetectToolCall(LastCall.reply).toolName
                  /\ toolInput' = DetectToolCall(LastCall.reply).toolInput
       /\ (toolName' /= toolName /\ toolName' /= <<>>) => DetectionRuns
       /\ executed' /= executed =>
            /\ pc \notin {"stream1", "stream2"}
            /\ \A k \in 1..Len(calls) : calls[k].outcome /= "running"]_vars

\* a call found in a reply that arrived in two chunks
C17_Witness ==
    /\ pc = "dispatch"
    /\ LastCall.reply = Concat(R_BLOCK)
    /\ Len(R_BLOCK) = 2
    /\ fullResponse = R_BLOCK[1] \o R_BLOCK[2]
    /\ toolName = <<"list_dir">>

\* Run returns from AwaitingInput: getUserInput has returned ok = false
EndOfInputRead == pc = "input" /\ pc' = "done"

\* C18: when getUserInput signals the end of the input, Run returns nil
\* without a model call, a tool call or a history record and with transcript
\* and statistics as they were; after a return of nil nothing happens any more
C18_EndOfInputReturnsNil ==
    [][/\ EndOfInputRead =>
            /\ ret' = "nil"
            /\ UNCHANGED <<messages, stats, history, calls, executed, uuidCtr,
                           conversationID, turn, terminal, spinner>>
       /\ (pc = "done" /\ ret = "nil") => UNCHANGED vars]_vars

\* the input ended after two exchanges
C18_Witness ==
    /\ pc = "done"
    /\ ret = "nil"
    /\ turn = 2
    /\ messages[Len(messages)].role = "assistant"
    /\ \A k \in 1..Len(calls) : calls[k].outcome = "nil"

\* C19: the capabilities are fixed at startup: the tools Run looks a name up
\* in, and the tools advertised to the model, are in every state the tools
\* that were given to NewAgent
C19_RegistryFixedAtStartup ==
    /\ tools = MainTools
    /\ advertised = MainTools

(***************************************************************************)
(* RegistrySpec: NewAgent, called with any list of up to MaxTools tools,   *)
(* followed by one exchange of Run.                                        *)
(***************************************************************************)
\* the length of the tool list given to NewAgent
MaxTools == 2

\* the names of the tools NewReadFileTool, NewListFilesTool, NewEditFileTool
ToolNames == {<<"read_file">>, <<"list_files">>, <<"edit_file">>}

RECURSIVE ToolLists(_)
ToolLists(n) ==
    IF n = 0 THEN {<<>>}
    ELSE LET shorter == ToolLists(n - 1)
         IN shorter \cup {Append(ts, t) : ts \in shorter, t \in ToolNames}

\* before NewAgent: no agent yet
RegistryInit ==
    /\ pc = "new"
    /\ ret = "none"
    /\ tools = <<>>
    /\ advertised = <<>>
    /\ showStats = TRUE
    /\ stats = [TotalInputTokens |-> 0, TotalOutputTokens |-> 0]
    /\ messages = <<>>
    /\ history = <<>>
    /\ uuidCtr = 0
    /\ input = <<>>
    /\ conversationID = 0
    /\ fullResponse = <<>>
    /\ pending = <<>>
    /\ toolName = <<>>
    /\ toolInput = <<>>
    /\ result = <<>>
    /\ execErr = FALSE
    /\ calls = <<>>
    /\ executed = <<>>
    /\ turn = 0
    /\ discarded = 0
    /\ spinner = [pc |-> "idle", i |-> 0]
    /\ terminal = <<>>
    /\ OutsideUnused

\* NewAgent(model, getUserInput, tools, ...): the storage is opened, the tools
\* are given to the model (SetTools of the Ollama model returns nil) and kept
\* in the agent as they are
NewAgent ==
    /\ pc = "new"
    /\ \E storageOk \in BOOLEAN, ts \in ToolLists(MaxTools) :
        IF ~storageOk
        THEN /\ pc' = "done"
             /\ ret' = "failed to initialize chat storage"
             /\ UNCHANGED <<tools, advertised>>
        ELSE /\ advertised' = ts
             /\ tools' = ts
             /\ pc' = "start"
             /\ UNCHANGED ret
    /\ UNCHANGED <<showStats, outside, stats, messages, history, uuidCtr, input,
                   conversationID, fullResponse, pending, toolName, toolInput,
                   result, execErr, calls, executed, turn, discarded, spinner,
                   terminal>>

RegistryNext ==
    \/ NewAgent
    \/ RunInit
    \/ ReadInputOnce
    \/ OnChunk
    \/ StreamReturn
    \/ StreamError
    \/ Detect
    \/ Dispatch
    \/ ExecuteTool
    \/ StopSpinner
    \/ HandleResult
    \/ Finish

RegistrySpec == RegistryInit /\ [][RegistryNext]_vars

\* the names of a tool list are pairwise distinct
NamesDistinct(ts) == \A i, j \in 1..Len(ts) : i /= j => ts[i] /= ts[j]

\* the tools of a list that a name resolves to, by equality of names
Matches(ts, name) == {i \in 1..Len(ts) : ts[i] = name}

MaxSaves == 2

\* a byte that is not valid UTF-8, and U+FFFD, which the json package puts in
\* its place
BAD_UTF8 == "<0xff>"
REPLACEMENT == "<U+FFFD>"

\* json.Marshal of a string, token by token: the angle brackets become
\* their six-character escapes, a newline becomes backslash-n, an invalid
\* byte becomes the escape of U+FFFD
EscapeToken(tok) ==
    CASE tok = TOOL_OPEN -> "\\u003ctool\\u003e"
      [] tok = NL -> "\\n"
      [] tok = BAD_UTF8 -> "\\ufffd"
      [] OTHER -> tok
Escape(str) == [k \in 1..Len(str) |-> EscapeToken(str[k])]

\* json.Unmarshal of a string, token by token
UnescapeToken(tok) ==
    CASE tok = "\\u003ctool\\u003e" -> TOOL_OPEN
      [] tok = "\\n" -> NL
      [] tok = "\\ufffd" -> REPLACEMENT
      [] tok = BAD_UTF8 -> REPLACEMENT
      [] OTHER -> tok
Unescape(str) == [k \in 1..Len(str) |-> UnescapeToken(str[k])]

\* the ChatMessage SaveMessage builds
ChatMessage(id, convID, msg, modelName, usage) ==
    [id |-> id, conversation_id |-> convID, role |-> msg.role,
     content |-> msg.content, model |-> modelName, usage |-> usage]

\* json.MarshalIndent(messages, "", "  ") and json.Unmarshal(data, &messages):
\* the text of a record list, and the record list of a text
MarshalRecord(rec) == [rec EXCEPT !.content = Escape(rec.content)]
MarshalIndent(list) == [ok |-> TRUE, text |-> [k \in 1..Len(list) |-> MarshalRecord(list[k])]]
UnmarshalRecord(rec) == [rec EXCEPT !.content = Unescape(rec.content)]
UnmarshalList(data) == [k \in 1..Len(data.text) |-> UnmarshalRecord(data.text[k])]

\* a file that does not hold a JSON list (cut short by a failed write, or
\* written by someone else)
NotJSON == [ok |-> FALSE, text |-> <<>>]
NoFile == [ok |-> FALSE, text |-> <<"absent">>]

\* mutant of AppendRecord: the list that is written holds the new record only
OnlyNewRecord(list, rec) == <<rec>>

\* messages = append(messages, chatMsg)
AppendRecord(list, rec) == Append(list, rec)

\* what can be at the storage path before the program starts
OldRecord == ChatMessage(100, 50, Message("user", <<"old", NL, TOOL_OPEN>>), "claude-x", Usage(3, 0))
InitialFiles == {NoFile, NotJSON, MarshalIndent(<<>>), MarshalIndent(<<OldRecord>>)}

\* the messages and conversation ids SaveMessage is called with
SavedMessages ==
    {Message(r, c) : r \in {"user", "assistant"},
                     c \in {<<"hi">>, <<TOOL_OPEN, "x", NL>>, <<"a", BAD_UTF8>>}}
ConversationIDs == {1, 2}

StorageInit ==
    /\ AgentInit
    /\ showStats
    /\ storage = [pc |-> "closed", file |-> NoFile, initial |-> <<>>, saved |-> <<>>,
                  uuids |-> 0, err |-> "nil"]
    /\ adapter = Unused
    /\ startup = Unused
    /\ listDir = Unused
    /\ editFile = Unused

\* some file is, or is not, at the path
PreexistingFile ==
    /\ storage.pc = "closed"
    /\ \E f \in InitialFiles :
        storage' = [storage EXCEPT !.pc = "found", !.file = f]
    /\ UNCHANGED <<pc, ret, tools, advertised, showStats, stats, messages, history,
                   uuidCtr, input, conversationID, fullResponse, pending, toolName,
                   toolInput, result, execErr, calls, executed, turn, discarded,
                   spinner, terminal, adapter, startup, listDir, editFile>>

\* mutant of NewChatStorage: "[]" is written whether or not the file exists
NewChatStorageTruncates ==
    /\ storage.pc = "found"
    /\ \E writeOk \in BOOLEAN :
        IF writeOk
        THEN storage' = [storage EXCEPT !.pc = "open", !.file = MarshalIndent(<<>>),
                                        !.initial = <<>>]
        ELSE storage' = [storage EXCEPT !.pc = "failed",
                                        !.err = "failed to create chat history file"]
    /\ UNCHANGED <<pc, ret, tools, advertised, showStats, stats, messages, history,
                   uuidCtr, input, conversationID, fullResponse, pending, toolName,
                   toolInput, result, execErr, calls, executed, turn, discarded,
                   spinner, terminal, adapter, startup, listDir, editFile>>

\* NewChatStorage: "Create file if it doesn't exist", with "[]" in it
NewChatStorage ==
    /\ storage.pc = "found"
    /\ \E writeOk \in BOOLEAN :
        IF storage.file = NoFile
        THEN IF writeOk
             THEN storage' = [storage EXCEPT !.pc = "open", !.file = MarshalIndent(<<>>),
                                             !.initial = <<>>]
             ELSE storage' = [storage EXCEPT !.pc = "failed",
                                             !.err = "failed to create chat history file"]
        ELSE storage' = [storage EXCEPT !.pc = "open",
                             !.initial = IF storage.file.ok
                                         THEN UnmarshalList(storage.file) ELSE <<>>]
    /\ UNCHANGED <<pc, ret, tools, advertised, showStats, stats, messages, history,
                   uuidCtr, input, conversationID, fullResponse, pending, toolName,
                   toolInput, result, execErr, calls, executed, turn, discarded,
                   spinner, terminal, adapter, startup, listDir, editFile>>

\* ChatStorage.SaveMessage: the whole call.  os.ReadFile, json.Unmarshal and
\* os.WriteFile can fail; a failed os.WriteFile leaves the file as it was or
\* cut short
SaveMessageCall ==
    /\ storage.pc = "open"
    /\ storage.uuids < MaxSaves
    /\ \E msg \in SavedMessages, convID \in ConversationIDs,
          readOk \in BOOLEAN, writeOk \in BOOLEAN, cut \in BOOLEAN :
        LET chatMsg == ChatMessage(NewUUID(storage.uuids), convID, msg, ModelName,
                                   Usage(Fields(msg.content), 0))
        IN IF ~readOk
           THEN /\ ~writeOk /\ ~cut
                /\ storage' = [storage EXCEPT !.uuids = @ + 1,
                                              !.err = "failed to read chat history"]
           ELSE IF ~storage.file.ok
           THEN /\ ~writeOk /\ ~cut
                /\ storage' = [storage EXCEPT !.uuids = @ + 1,
                                              !.err = "failed to parse chat history"]
           ELSE IF ~writeOk
           THEN storage' = [storage EXCEPT !.uuids = @ + 1,
                                           !.file = IF cut THEN NotJSON ELSE @,
                                           !.err = "failed to write chat history"]
           ELSE /\ ~cut
                /\ storage' = [storage EXCEPT
                        !.uuids = @ + 1,
                        !.file = MarshalIndent(AppendRecord(UnmarshalList(storage.file), chatMsg)),
                        !.saved = Append(@, chatMsg),
                        !.err = "nil"]
    /\ UNCHANGED <<pc, ret, tools, advertised, showStats, stats, messages, history,
                   uuidCtr, input, conversationID, fullResponse, pending, toolName,
                   toolInput, result, execErr, calls, executed, turn, discarded,
                   spinner, terminal, adapter, startup, listDir, editFile>>

StorageNext ==
    \/ PreexistingFile
    \/ NewChatStorage
    \/ SaveMessageCall

StorageSpec == StorageInit /\ [][StorageNext]_vars

\* a record as it is read back from the file: the content with every invalid
\* byte replaced
ReadBack(rec) == [rec EXCEPT !.content = Unescape(rec.content)]

\* C21: the history sink is append-only and order-preserving: whenever the
\* file holds a list, it holds the list that was there at the start, followed
\* by one record for each SaveMessage call that returned nil, in the order of
\* the calls, each with the role, conversation id and usage it was called
\* with and with its content as JSON reads it back
C21_AppendOnlyInOrder ==
    (storage.pc = "open" /\ storage.file.ok) =>
        UnmarshalList(storage.file) =
            storage.initial \o [k \in 1..Len(storage.saved) |-> ReadBack(storage.saved[k])]

\* two calls returned nil on a file that had a record, the first with an
\* invalid byte in its content
C21_Witness ==
    /\ storage.pc = "open"
    /\ storage.file.ok
    /\ storage.initial = <<UnmarshalRecord(MarshalRecord(OldRecord))>>
    /\ Len(storage.saved) = 2
    /\ storage.saved[1].content = <<"a", BAD_UTF8>>
    /\ storage.saved[2].content = <<TOOL_OPEN, "x", NL>>
    /\ Len(storage.file.text) = 3

(***************************************************************************)
(* AdapterSpec: one backend response handed to an adapter.  StreamResponse *)
(* is called with a callback that may return an error; then, for the       *)
(* adapters whose GenerateResponse reads the same kind of response (Ollama *)
(* and Claude), GenerateResponse is called on the same response.           *)
(***************************************************************************)
\* the number of elements of a backend response
MaxElems == 3

\* ollamaResponse objects in the body: message.content, message.tool_calls,
\* done; and bytes json.Decoder cannot decode
OllamaContent(text, done) == [type |-> "content", text |-> text, name |-> "", args |-> "", done |-> done]
OllamaToolCalls(name, args, done) == [type |-> "tool_calls", text |-> <<>>, name |-> name, args |-> args, done |-> done]
OllamaBad == [type |-> "bad", text |-> <<>>, name |-> "", args |-> "", done |-> FALSE]
OllamaElements ==
    {OllamaContent(<<"Hel">>, FALSE), OllamaContent(<<"lo">>, TRUE), OllamaContent(<<>>, FALSE),
     OllamaContent(<<>>, TRUE), OllamaToolCalls("read_file", A_PATH, FALSE), OllamaBad}

\* what stream.Recv returns before io.EOF: a response with a delta, a
\* response with no choices, an error
Delta(text) == [type |-> "delta", text |-> text, name |-> "", args |-> "", done |-> FALSE]
NoChoices == [type |-> "nochoices", text |-> <<>>, name |-> "", args |-> "", done |-> FALSE]
RecvError == [type |-> "error", text |-> <<>>, name |-> "", args |-> "", done |-> FALSE]
ChatGPTElements == {Delta(<<"Hel">>), Delta(<<"lo">>), Delta(<<>>), NoChoices, RecvError}

\* the content blocks of an Anthropic message, and a request that fails
TextBlock(text) == [type |-> "text", text |-> text, name |-> "", args |-> "", done |-> FALSE]
ToolUseBlock(name, args) == [type |-> "tool_use", text |-> <<>>, name |-> name, args |-> args, done |-> FALSE]
OtherBlock == [type |-> "thinking", text |-> <<>>, name |-> "", args |-> "", done |-> FALSE]
RequestError == [type |-> "error", text |-> <<>>, name |-> "", args |-> "", done |-> FALSE]
ClaudeElements ==
    {TextBlock(<<"Hel">>), TextBlock(<<>>), ToolUseBlock("read_file", A_PATH), OtherBlock, RequestError}

ElementsOf(kind) ==
    CASE kind = "ollama" -> OllamaElements
      [] kind = "chatgpt" -> ChatGPTElements
      [] kind = "claude" -> ClaudeElements

\* the backend responses of at most n elements
Bodies(kind, n) == UNION {[1..k -> ElementsOf(kind)] : k \in 0..n}

\* fmt.Sprintf of the first tool call in the delimited-block format
OllamaToolCallStr(e) ==
    <<TOOL_OPEN, NL, "{", NL, "  \"name\": \"", e.name, "\",", NL, "  \"arguments\": ", e.args,
      NL, "}", NL, TOOL_CLOSE>>

\* fmt.Sprintf("\n[Tool: %s]\nInput: %s\n", ...)
ClaudeToolUseStr(b) == <<NL, LINE_MARK, SP, b.name, RBRACKET, NL, INPUT_MARK, SP, b.args, NL>>

\* ClaudeModel.GenerateResponse: the content of the blocks
RECURSIVE ClaudeGenerateContent(_)
ClaudeGenerateContent(blocks) ==
    IF blocks = <<>> THEN <<>>
    ELSE LET b == Head(blocks)
         IN (CASE b.type = "text" -> b.text
               [] b.type = "tool_use" -> ClaudeToolUseStr(b)
               [] OTHER -> <<>>) \o ClaudeGenerateContent(Tail(blocks))

\* mutant of ClaudeStreamContent: the tool_use blocks are left out
RECURSIVE ClaudeStreamTextOnly(_)
ClaudeStreamTextOnly(blocks) ==
    IF blocks = <<>> THEN <<>>
    ELSE LET b == Head(blocks)
         IN (CASE b.type = "text" -> b.text
               [] OTHER -> <<>>) \o ClaudeStreamTextOnly(Tail(blocks))

\* ClaudeModel.StreamResponse: the content of the blocks
RECURSIVE ClaudeStreamContent(_)
ClaudeStreamContent(blocks) ==
    IF blocks = <<>> THEN <<>>
    ELSE LET b == Head(blocks)
         IN (CASE b.type = "text" -> b.text
               [] b.type = "tool_use" -> ClaudeToolUseStr(b)
               [] OTHER -> <<>>) \o ClaudeStreamContent(Tail(blocks))

\* Messages.New returns an error
RequestFails(body) == \E k \in 1..Len(body) : body[k].type = "error"

\* mutant of OllamaBreaks: the loop goes on after done
OllamaNeverBreaks(e) == FALSE

\* if ollamaResp.Done { break }
OllamaBreaks(e) == e.done

\* the events of one call, in the order they happen
Chunk(at, text) == [ev |-> "chunk", at |-> at, text |-> text]
Event(name, at) == [ev |-> name, at |-> at, text |-> <<>>]

AdapterIdle ==
    [pc |-> "idle", kind |-> "none", body |-> <<>>, pos |-> 1, mode |-> "stream", trace |-> <<>>,
     delivered |-> <<>>, fullResponse |-> <<>>, streamRet |-> "none", genRet |-> "none",
     content |-> <<>>]

AdapterInit ==
    /\ AgentInit
    /\ showStats
    /\ adapter = AdapterIdle
    /\ storage = Unused
    /\ startup = Unused
    /\ listDir = Unused
    /\ editFile = Unused

\* the call returns r: StreamResponse to its caller, or to GenerateResponse,
\* which returns the accumulated text as Content
AdapterReturn(a, r) ==
    IF a.mode = "stream"
    THEN [a EXCEPT !.pc = "returned", !.streamRet = r]
    ELSE [a EXCEPT !.pc = "generated", !.genRet = r,
                   !.content = IF r = "nil" THEN a.fullResponse ELSE <<>>]

\* onChunk(text) for element at: the caller's callback, which may fail, or
\* GenerateResponse's, which appends and returns nil
AdapterOnChunk(a, at, text, cbOk) ==
    IF a.mode = "stream"
    THEN [a EXCEPT !.delivered = Append(@, text),
                   !.trace = IF cbOk THEN Append(@, Chunk(at, text))
                             ELSE @ \o <<Chunk(at, text), Event("callback error", at)>>]
    ELSE [a EXCEPT !.fullResponse = @ \o text, !.trace = Append(@, Chunk(at, text))]

AdapterUnchanged ==
    UNCHANGED <<pc, ret, tools, advertised, showStats, stats, messages, history,
                uuidCtr, input, conversationID, fullResponse, pending, toolName,
                toolInput, result, execErr, calls, executed, turn, discarded,
                spinner, terminal, storage, startup, listDir, editFile>>

\* StreamResponse is called on some backend response
StreamResponseCall ==
    /\ adapter.pc = "idle"
    /\ \E kind \in {"ollama", "chatgpt", "claude"} :
        \E body \in Bodies(kind, MaxElems) :
            adapter' = [adapter EXCEPT !.pc = "loop", !.kind = kind, !.body = body]
    /\ AdapterUnchanged

\* one iteration of the decoder loop of OllamaModel.StreamResponse
OllamaIteration ==
    /\ adapter.pc = "loop"
    /\ adapter.kind = "ollama"
    /\ \E cbOk \in BOOLEAN :
        LET at == adapter.pos
            e == adapter.body[at]
            text == IF e.type = "tool_calls" THEN OllamaToolCallStr(e) ELSE e.text
            called == e.type = "tool_calls" \/ e.text /= <<>>
            after == IF called THEN AdapterOnChunk(adapter, at, text, cbOk) ELSE adapter
            seen == IF e.done THEN [after EXCEPT !.trace = Append(@, Event("done", at))] ELSE after
        IN IF at > Len(adapter.body)
           THEN /\ cbOk
                /\ adapter' = AdapterReturn([adapter EXCEPT !.trace = Append(@, Event("EOF", at))], "nil")
           ELSE IF e.type = "bad"
           THEN /\ cbOk
                /\ adapter' = AdapterReturn(
                        [adapter EXCEPT !.trace = Append(@, Event("decode error", at))],
                        "failed to decode response")
           ELSE /\ (cbOk \/ (called /\ adapter.mode = "stream"))
                /\ IF called /\ ~cbOk
                   THEN adapter' = AdapterReturn(after,
                            IF e.type = "tool_calls" THEN "error processing tool call"
                            ELSE "error processing chunk")
                   ELSE IF OllamaBreaks(e)
                   THEN adapter' = AdapterReturn(seen, "nil")
                   ELSE adapter' = [seen EXCEPT !.pos = at + 1]
    /\ AdapterUnchanged

\* one iteration of the receive loop of ChatGPTModel.StreamResponse
ChatGPTIteration ==
    /\ adapter.pc = "loop"
    /\ adapter.kind = "chatgpt"
    /\ \E cbOk \in BOOLEAN :
        LET at == adapter.pos
            e == adapter.body[at]
            called == e.text /= <<>>
            after == IF called THEN AdapterOnChunk(adapter, at, e.text, cbOk) ELSE adapter
        IN IF at > Len(adapter.body)
           THEN /\ cbOk
                /\ adapter' = AdapterReturn([adapter EXCEPT !.trace = Append(@, Event("EOF", at))], "nil")
           ELSE IF e.type = "error"
           THEN /\ cbOk
                /\ adapter' = AdapterReturn(
                        [adapter EXCEPT !.trace = Append(@, Event("receive error", at))],
                        "error receiving stream")
           ELSE IF e.type = "nochoices"
           THEN /\ cbOk
                /\ adapter' = AdapterReturn(
                        [adapter EXCEPT !.trace = Append(@, Event("panic", at))], "panic")
           ELSE /\ (cbOk \/ called)
                /\ IF called /\ ~cbOk
                   THEN adapter' = AdapterReturn(after, "error processing chunk")
                   ELSE adapter' = [after EXCEPT !.pos = at + 1]
    /\ AdapterUnchanged

\* ClaudeModel.StreamResponse: one request, one onChunk call with the content
ClaudeStream ==
    /\ adapter.pc = "loop"
    /\ adapter.kind = "claude"
    /\ \E cbOk \in BOOLEAN :
        IF RequestFails(adapter.body)
        THEN /\ cbOk
             /\ adapter' = AdapterReturn(adapter, "request error")
        ELSE adapter' = AdapterReturn(
                AdapterOnChunk(adapter, 1, ClaudeStreamContent(adapter.body), cbOk),
                IF cbOk THEN "nil" ELSE "callback error")
    /\ AdapterUnchanged

\* OllamaModel.GenerateResponse: StreamResponse on the same response with the
\* accumulating callback
OllamaGenerate ==
    /\ adapter.pc = "returned"
    /\ adapter.kind = "ollama"
    /\ adapter' = [adapter EXCEPT !.pc = "loop", !.mode = "generate", !.pos = 1,
                                  !.trace = <<>>, !.fullResponse = <<>>]
    /\ AdapterUnchanged

\* ClaudeModel.GenerateResponse on the same response
ClaudeGenerate ==
    /\ adapter.pc = "returned"
    /\ adapter.kind = "claude"
    /\ adapter' = [adapter EXCEPT
            !.pc = "generated", !.mode = "generate",
            !.genRet = IF RequestFails(adapter.body) THEN "request error" ELSE "nil",
            !.content = IF RequestFails(adapter.body) THEN <<>>
                        ELSE ClaudeGenerateContent(adapter.body)]
    /\ AdapterUnchanged

AdapterNext ==
    \/ StreamResponseCall
    \/ OllamaIteration
    \/ ChatGPTIteration
    \/ ClaudeStream
    \/ OllamaGenerate
    \/ ClaudeGenerate

AdapterSpec == AdapterInit /\ [][AdapterNext]_vars

\* the events after which the callback must stay silent
Silencing == {"callback error", "decode error", "receive error", "done", "EOF", "panic"}

\* C22: in the Ollama and ChatGPT adapters onChunk is invoked in arrival
\* order, and never again after a callback error, a decode or receive error,
\* or the terminal element (done=true or EOF)
C22_NoChunkAfterEnd ==
    adapter.kind \in {"ollama", "chatgpt"} =>
        \A i \in 1..Len(adapter.trace) : \A j \in 1..Len(adapter.trace) :
            (i < j /\ adapter.trace[j].ev = "chunk") =>
                /\ adapter.trace[i].ev \notin Silencing
                /\ adapter.trace[i].at < adapter.trace[j].at

\* a stream that delivered two chunks and stopped at the callback's error
\* with an element still unread, or stopped at done=true with one unread
C22_Witness ==
    /\ adapter.kind = "ollama"
    /\ adapter.pc = "returned"
    /\ Len(adapter.delivered) = 2
    /\ adapter.trace[Len(adapter.trace)].ev \in {"callback error", "done"}
    /\ adapter.pos < Len(adapter.body)
    /\ adapter.body[Len(adapter.body)].text /= <<>>

\* C23: for the Ollama and Claude adapters, when StreamResponse and
\* GenerateResponse both return nil on the same backend response, the chunks
\* passed to onChunk, concatenated in arrival order, are the Content
C23_ChunksEqualContent ==
    (/\ adapter.kind \in {"ollama", "claude"}
     /\ adapter.pc = "generated"
     /\ adapter.streamRet = "nil"
     /\ adapter.genRet = "nil") =>
        Concat(adapter.delivered) = adapter.content

\* Claude answered with text and a tool_use block, and both calls returned
C23_Witness ==
    /\ adapter.kind = "claude"
    /\ adapter.pc = "generated"
    /\ adapter.streamRet = "nil"
    /\ adapter.genRet = "nil"
    /\ \E k \in 1..Len(adapter.body) : adapter.body[k].type = "tool_use"
    /\ \E k \in 1..Len(adapter.body) : adapter.body[k].type = "text" /\ adapter.body[k].text /= <<>>
    /\ Len(adapter.content) > 1

(***************************************************************************)
(* MainSpec: main() from the parsed flags and the environment to the call  *)
(* of Agent.Run.                                                           *)
(***************************************************************************)
\* the values of -model, of the two environment variables and of
\* -ollama-model
ModelTypes == {"claude", "chatgpt", "ollama", "gemini"}
KeyValues == {"", "sk-key"}
OllamaModelNames == {"", "llama2"}

\* NewClaudeModel and NewChatGPTModel: "API key is required"; NewOllamaModel
\* returns no error
NewClaudeModel(config) ==
    IF config.APIKey = ""
    THEN [model |-> "nil", err |-> "API key is required for Claude model"]
    ELSE [model |-> "claude", err |-> "nil"]
NewChatGPTModel(config) ==
    IF config.APIKey = ""
    THEN [model |-> "nil", err |-> "API key is required for ChatGPT model"]
    ELSE [model |-> "chatgpt", err |-> "nil"]
NewOllamaModel(config) ==
    [model |-> IF config.ModelName = "" THEN "ollama-llama2" ELSE "ollama-" \o config.ModelName,
     err |-> "nil"]

ModelConfig(key, name) == [APIKey |-> key, ModelName |-> name]
Exit1 == [exit |-> 1, model |-> "nil", err |-> "nil"]
Built(m) == [exit |-> 0, model |-> m.model, err |-> m.err]

\* mutant of SwitchModelType: no default case
SwitchWithoutDefault(cfg) ==
    CASE cfg.modelType = "claude" ->
            IF cfg.anthropicKey = "" THEN Exit1
            ELSE Built(NewClaudeModel(ModelConfig(cfg.anthropicKey, "claude-3-sonnet-20240229")))
      [] cfg.modelType = "chatgpt" ->
            IF cfg.openaiKey = "" THEN Exit1
            ELSE Built(NewChatGPTModel(ModelConfig(cfg.openaiKey, "gpt-3.5-turbo")))
      [] cfg.modelType = "ollama" ->
            Built(NewOllamaModel(ModelConfig("", cfg.ollamaModel)))
      [] OTHER -> [exit |-> 0, model |-> "nil", err |-> "nil"]

\* switch *modelType
SwitchModelType(cfg) ==
    CASE cfg.modelType = "claude" ->
            IF cfg.anthropicKey = "" THEN Exit1
            ELSE Built(NewClaudeModel(ModelConfig(cfg.anthropicKey, "claude-3-sonnet-20240229")))
      [] cfg.modelType = "chatgpt" ->
            IF cfg.openaiKey = "" THEN Exit1
            ELSE Built(NewChatGPTModel(ModelConfig(cfg.openaiKey, "gpt-3.5-turbo")))
      [] cfg.modelType = "ollama" ->
            Built(NewOllamaModel(ModelConfig("", cfg.ollamaModel)))
      [] OTHER -> Exit1

NoConfig == [modelType |-> "", anthropicKey |-> "", openaiKey |-> "", ollamaModel |-> ""]

MainInit ==
    /\ AgentInit
    /\ startup = [pc |-> "flags", cfg |-> NoConfig, exit |-> 0, model |-> "nil", err |-> "nil",
                  agent |-> FALSE, run |-> FALSE]
    /\ storage = Unused
    /\ adapter = Unused
    /\ listDir = Unused
    /\ editFile = Unused

MainUnchanged ==
    UNCHANGED <<pc, ret, tools, advertised, showStats, stats, messages, history,
                uuidCtr, input, conversationID, fullResponse, pending, toolName,
                toolInput, result, execErr, calls, executed, turn, discarded,
                spinner, terminal, storage, adapter, listDir, editFile>>

\* flag.Parse() and the environment the process was started in
ParseFlags ==
    /\ startup.pc = "flags"
    /\ \E t \in ModelTypes, ak \in KeyValues, ok \in KeyValues, om \in OllamaModelNames :
        startup' = [startup EXCEPT
            !.pc = "switch",
            !.cfg = [modelType |-> t, anthropicKey |-> ak, openaiKey |-> ok, ollamaModel |-> om]]
    /\ MainUnchanged

\* the switch: the key checks, the constructors, the default case
InitializeModel ==
    /\ startup.pc = "switch"
    /\ LET r == SwitchModelType(startup.cfg)
       IN startup' = [startup EXCEPT !.pc = IF r.exit = 1 THEN "exited" ELSE "built",
                                     !.exit = r.exit, !.model = r.model, !.err = r.err]
    /\ MainUnchanged

\* if err != nil { os.Exit(1) }; then agent.NewAgent, which fails when the
\* chat storage cannot be created
CreateAgent ==
    /\ startup.pc = "built"
    /\ \E storageOk \in BOOLEAN :
        IF startup.err /= "nil"
        THEN /\ storageOk
             /\ startup' = [startup EXCEPT !.pc = "exited", !.exit = 1]
        ELSE IF ~storageOk
        THEN startup' = [startup EXCEPT !.pc = "exited", !.exit = 1]
        ELSE startup' = [startup EXCEPT !.pc = "created", !.agent = TRUE]
    /\ MainUnchanged

\* go func() { errChan <- agent.Run(context.TODO()) }()
EnterRun ==
    /\ startup.pc = "created"
    /\ startup' = [startup EXCEPT !.pc = "running", !.run = TRUE]
    /\ MainUnchanged

MainNext ==
    \/ ParseFlags
    \/ InitializeModel
    \/ CreateAgent
    \/ EnterRun

MainSpec == MainInit /\ [][MainNext]_vars

\* the configuration errors: a missing key for the selected backend, an
\* unknown model type, a constructor that returned an error
ConfigurationError ==
    \/ startup.cfg.modelType = "claude" /\ startup.cfg.anthropicKey = ""
    \/ startup.cfg.modelType = "chatgpt" /\ startup.cfg.openaiKey = ""
    \/ startup.cfg.modelType \notin {"claude", "chatgpt", "ollama"}
    \/ startup.err /= "nil"

\* C24: with a configuration error the process exits with status 1 before an
\* Agent is created, and Agent.Run is never entered
C24_ConfigErrorsFatal ==
    (startup.pc \notin {"flags", "switch"} /\ ConfigurationError) =>
        /\ ~startup.agent
        /\ ~startup.run
        /\ startup.pc = "exited"
        /\ startup.exit = 1

\* chatgpt selected with no OPENAI_API_KEY while ANTHROPIC_API_KEY is set
C24_Witness ==
    /\ startup.pc = "exited"
    /\ startup.cfg.modelType = "chatgpt"
    /\ startup.cfg.openaiKey = ""
    /\ startup.cfg.anthropicKey /= ""
    /\ startup.exit = 1
    /\ ~startup.agent

(***************************************************************************)
(* UsageSpec: one exchange of Run whose input has four words, so that the  *)
(* word count and the word count scaled by 1.3 differ.                     *)
(***************************************************************************)
UsageInputs == {<<"list", SP, "all", SP, "the", SP, "files">>}

ReadInputWords == ReadInputFrom(UsageInputs, Replies, 1)

UsageNext ==
    \/ RunInit
    \/ ReadInputWords
    \/ OnChunk
    \/ StreamReturn
    \/ StreamError
    \/ Detect
    \/ Dispatch
    \/ ExecuteTool
    \/ StopSpinner
    \/ HandleResult
    \/ Finish

UsageSpec == Init /\ [][UsageNext]_vars

\* the usage the claim expects in the record of a message
ScaledUsage(msg) ==
    IF msg.role = "user"
    THEN Usage(EstimateTokens(Fields(msg.content)), 0)
    ELSE Usage(0, EstimateTokens(Fields(msg.content)))

\* C26: wherever usage is recorded it is the scaled estimate: a step that
\* completes an exchange adds trunc(1.3 x words(input)) and
\* trunc(1.3 x words(reply)) to the statistics, and every record that is
\* persisted carries the scaled estimate of its own text
C26_UsageIsScaledEverywhere ==
    [][/\ TurnCompletes =>
            /\ stats'.TotalInputTokens = stats.TotalInputTokens + EstimateTokens(Fields(input))
            /\ stats'.TotalOutputTokens =
                    stats.TotalOutputTokens + EstimateTokens(Fields(fullResponse))
       /\ history' /= history =>
            history'[Len(history')].usage =
                ScaledUsage(Message(history'[Len(history')].role, history'[Len(history')].content))]_vars

(***************************************************************************)
(* FormatSpec: one exchange of Run in which the reply is a delimited block *)
(* whose content is not a call (or no block), followed by lines of the     *)
(* line-prefixed format (or none).                                         *)
(***************************************************************************)
L_READ == <<LINE_MARK, SP, "read_file", RBRACKET>>
L_LISTDIR == <<LINE_MARK, SP, "list_dir", RBRACKET>>
L_UNKNOWN == <<LINE_MARK, SP, "list_files", RBRACKET>>

BlockParts ==
    {<<>>} \cup {<<TOOL_OPEN, c, TOOL_CLOSE, NL>> : c \in {J_BAD, J_NONAME, J_NOARGS, "hi"}}

LineParts ==
    {<<>>, <<"hi">>, L_READ, L_UNKNOWN,
     L_READ \o <<NL>> \o P_INPUT,
     L_READ \o <<NL, "hi", NL>> \o P_INPUT,
     L_READ \o <<NL>> \o L_LISTDIR \o <<NL>> \o P_INPUT}

FormatReplies == {<<b \o l>> : b \in BlockParts, l \in LineParts}

ReadInputFormats == ReadInputFrom({<<"list", SP, "files">>}, FormatReplies, 1)

FormatNext ==
    \/ RunInit
    \/ ReadInputFormats
    \/ OnChunk
    \/ StreamReturn
    \/ StreamError
    \/ Detect
    \/ Dispatch
    \/ ExecuteTool
    \/ StopSpinner
    \/ HandleResult
    \/ Finish

FormatSpec == DetectInit /\ [][FormatNext]_vars

\* the text has "<tool>" and, after it, "</tool>"
HasBlock(r) == \E i, j \in 1..Len(r) : i < j /\ r[i] = TOOL_OPEN /\ r[j] = TOOL_CLOSE

\* what is enclosed by the first "<tool>" and the first "</tool>"
BlockContent(r) ==
    LET i == CHOOSE k \in 1..Len(r) : r[k] = TOOL_OPEN /\ \A m \in 1..(k - 1) : r[m] /= TOOL_OPEN
        j == CHOOSE k \in 1..Len(r) : r[k] = TOOL_CLOSE /\ \A m \in 1..(k - 1) : r[m] /= TOOL_CLOSE
    IN TrimSpace(SubSeq(r, i + 1, j - 1))

\* the enclosed content is not an object with a "name" and an "arguments" field
HasMalformedBlock(r) ==
    /\ HasBlock(r)
    /\ ~ (Len(BlockContent(r)) = 1 /\ BlockContent(r)[1] \in WellFormedCalls)

\* the enclosed content names no tool
HasNamelessBlock(r) ==
    /\ HasBlock(r)
    /\ ~ (Len(BlockContent(r)) = 1 /\ JSONDoc(BlockContent(r)[1]).name /= <<>>)

\* the call of the line-prefixed format: the first line that begins with
\* "[Tool:" names the tool; the line right after it, when it begins with
\* "Input:", gives the payload
FirstToolLine(r) ==
    CHOOSE i \in 1..Len(Split(r)) :
        /\ HasPrefix(Split(r)[i], LINE_MARK)
        /\ \A k \in 1..(i - 1) : ~HasPrefix(Split(r)[k], LINE_MARK)
LineCall(r) ==
    LET lines == Split(r)
        i == FirstToolLine(r)
    IN [name |-> TrimSpace(TrimPrefix(TrimSuffix(lines[i], RBRACKET), LINE_MARK)),
        payload |-> IF i < Len(lines) /\ HasPrefix(lines[i + 1], INPUT_MARK)
                    THEN TrimSpace(TrimPrefix(lines[i + 1], INPUT_MARK))
                    ELSE <<>>]

\* C27: a delimited block whose content is invalid JSON, or has no name, or
\* has no arguments, yields no call: the name detection ends with is the one
\* the later formats find (here the line-prefixed format), or none
C27_MalformedBlockFallsThrough ==
    (Detected /\ HasMalformedBlock(fullResponse)) =>
        /\ pc = "dispatch"
        /\ toolName = IF HasToolLine(fullResponse) THEN LineCall(fullResponse).name ELSE <<>>

\* C28: when the call comes from the line-prefixed format, it is the call of
\* the first "[Tool:" line, with the payload of the line right after it or
\* the empty payload; a registered tool is executed once with that payload
C28_LineFormatPayload ==
    /\ (/\ Detected
        /\ HasToolLine(fullResponse)
        /\ ~IsFunctionObject(fullResponse)
        /\ (HasBlock(fullResponse) => HasNamelessBlock(fullResponse))) =>
            /\ pc = "dispatch"
            /\ toolName = LineCall(fullResponse).name
            /\ toolInput = LineCall(fullResponse).payload
    /\ (/\ pc \in {"executed", "stopped", "stream2", "finish"}
        /\ HasToolLine(calls[1].reply)
        /\ LookupTool(tools, LineCall(calls[1].reply).name) /= 0
        /\ ~IsFunctionObject(calls[1].reply)
        /\ (HasBlock(calls[1].reply) => HasNamelessBlock(calls[1].reply))) =>
            executed = <<[turn |-> 1, tool |-> LineCall(calls[1].reply).name,
                          input |-> LineCall(calls[1].reply).payload]>>

(***************************************************************************)
(* ListDirSpec: one call of ListDirTool.Execute with any "path" of up to   *)
(* MaxPathLen tokens, on a tool whose workspace root is /ws, in a file     *)
(* system that has /ws, /ws/sub, /ws-evil and /sub.  A path is a string: a *)
(* sequence of tokens, each a separator or a piece of a name.              *)
(***************************************************************************)
\* the number of tokens of the "path" argument
MaxPathLen == 4

SLASH == "/"
DOT == "."
DOTDOT == ".."
PathTokens == {SLASH, DOT, DOTDOT, "ws", "-evil", "sub"}
PathsUpTo(n) == UNION {[1..k -> PathTokens] : k \in 0..n}

\* the workspaceRoot given to NewListDirTool, and what is on the disk
WorkspaceRoot == <<SLASH, "ws">>
Directories ==
    {<<SLASH>>, <<SLASH, "ws">>, <<SLASH, "ws", SLASH, "sub">>, <<SLASH, "ws", "-evil">>,
     <<SLASH, "sub">>}
RegularFiles == {<<SLASH, "ws", SLASH, "ws">>}

\* the elements of a path, split at the separators
RECURSIVE SplitPath(_, _)
SplitPath(s, cur) ==
    IF s = <<>> THEN <<cur>>
    ELSE IF Head(s) = SLASH THEN <<cur>> \o SplitPath(Tail(s), <<>>)
    ELSE SplitPath(Tail(s), Append(cur, Head(s)))

\* filepath.Clean: empty and "." elements are dropped, ".." removes the
\* element before it, and is dropped at the root of a rooted path
RECURSIVE CleanElements(_, _, _)
CleanElements(elems, kept, rooted) ==
    IF elems = <<>> THEN kept
    ELSE LET e == Head(elems)
         IN IF e = <<>> \/ e = <<DOT>>
            THEN CleanElements(Tail(elems), kept, rooted)
            ELSE IF e = <<DOTDOT>>
            THEN IF kept /= <<>> /\ kept[Len(kept)] /= <<DOTDOT>>
                 THEN CleanElements(Tail(elems), SubSeq(kept, 1, Len(kept) - 1), rooted)
                 ELSE IF rooted
                 THEN CleanElements(Tail(elems), kept, rooted)
                 ELSE CleanElements(Tail(elems), Append(kept, e), rooted)
            ELSE CleanElements(Tail(elems), Append(kept, e), rooted)

RECURSIVE JoinElements(_)
JoinElements(elems) ==
    IF elems = <<>> THEN <<>>
    ELSE IF Len(elems) = 1 THEN elems[1]
    ELSE elems[1] \o <<SLASH>> \o JoinElements(Tail(elems))

Clean(path) ==
    LET rooted == path /= <<>> /\ path[1] = SLASH
        kept == CleanElements(SplitPath(path, <<>>), <<>>, rooted)
    IN IF rooted THEN <<SLASH>> \o JoinElements(kept)
       ELSE IF kept = <<>> THEN <<DOT>>
       ELSE JoinElements(kept)

\* filepath.Join(a, b): the non-empty arguments joined by a separator, cleaned
Join(a, b) ==
    IF a = <<>> /\ b = <<>> THEN <<>>
    ELSE IF a = <<>> THEN Clean(b)
    ELSE IF b = <<>> THEN Clean(a)
    ELSE Clean(a \o <<SLASH>> \o b)

\* strings.HasPrefix(s, prefix) on strings: the first bytes of s are prefix
StringHasPrefix(s, prefix) ==
    Len(prefix) <= Len(s) /\ SubSeq(s, 1, Len(prefix)) = prefix

ListDirInit ==
    /\ AgentInit
    /\ showStats
    /\ listDir = [pc |-> "idle", root |-> WorkspaceRoot, path |-> <<>>, absPath |-> <<>>,
                  read |-> {}, err |-> "none"]
    /\ storage = Unused
    /\ adapter = Unused
    /\ startup = Unused
    /\ editFile = Unused

\* ListDirTool.Execute
ListDirExecute ==
    /\ listDir.pc = "idle"
    /\ \E parseOk \in BOOLEAN, path \in PathsUpTo(MaxPathLen), readOk \in BOOLEAN :
        LET absPath == Join(listDir.root, path)
            called == [listDir EXCEPT !.pc = "returned", !.path = path]
        IN IF ~parseOk
           THEN listDir' = [called EXCEPT !.err = "failed to parse input"]
           ELSE IF ~StringHasPrefix(absPath, listDir.root)
           THEN listDir' = [called EXCEPT !.absPath = absPath,
                                          !.err = "path must be within workspace root"]
           ELSE IF absPath \notin Directories \cup RegularFiles
           THEN listDir' = [called EXCEPT !.absPath = absPath,
                                          !.err = "failed to access directory"]
           ELSE IF absPath \in RegularFiles
           THEN listDir' = [called EXCEPT !.absPath = absPath,
                                          !.err = "path is not a directory"]
           ELSE IF ~readOk
           THEN listDir' = [called EXCEPT !.absPath = absPath,
                                          !.err = "failed to read directory"]
           ELSE listDir' = [called EXCEPT !.absPath = absPath, !.read = {absPath},
                                          !.err = "nil"]
    /\ UNCHANGED <<pc, ret, tools, advertised, showStats, stats, messages, history,
                   uuidCtr, input, conversationID, fullResponse, pending, toolName,
                   toolInput, result, execErr, calls, executed, turn, discarded,
                   spinner, terminal, storage, adapter, startup, editFile>>

ListDirNext ==
    \/ ListDirExecute

ListDirSpec == ListDirInit /\ [][ListDirNext]_vars

\* the directory is the root or below it
WithinRoot(dir, root) == dir = root \/ StringHasPrefix(dir, root \o <<SLASH>>)

\* C29: list_dir never reads a directory outside the workspace root: every
\* directory Execute reads is the root or a descendant of it
C29_NeverReadsOutsideRoot ==
    \A dir \in listDir.read : WithinRoot(dir, listDir.root)

(***************************************************************************)
(* EditSpec: one call of editFile on a file system that has, or has not,   *)
(* the file a.txt and the directory dir.  File contents, old_str and       *)
(* new_str are strings of up to MaxStr characters.                         *)
(***************************************************************************)
\* the length of a file's content, of old_str and of new_str
MaxStr == 2

Chars == {"x", "y"}
StringsUpTo(n) == UNION {[1..k -> Chars] : k \in 0..n}

\* the "path" arguments, and the directory part of each (path.Dir)
F_TOP == "a.txt"
F_SUB == "dir/b.txt"
EditPaths == {"", F_TOP, F_SUB}
Dir(filePath) == IF filePath = F_SUB THEN "dir" ELSE "."

\* no such file
Absent == <<"ENOENT">>

\* strings.Replace(s, old, new, -1): every non-overlapping occurrence, from
\* the left; with an empty old, new goes before every character and at the end
RECURSIVE Replace(_, _, _)
Replace(s, old, new) ==
    IF old = <<>>
    THEN IF s = <<>> THEN new ELSE new \o <<Head(s)>> \o Replace(Tail(s), old, new)
    ELSE IF Len(s) < Len(old) THEN s
    ELSE IF SubSeq(s, 1, Len(old)) = old
    THEN new \o Replace(SubSeq(s, Len(old) + 1, Len(s)), old, new)
    ELSE <<Head(s)>> \o Replace(Tail(s), old, new)

\* the file systems the call can find
FileSystems ==
    {[files |-> [f \in {F_TOP, F_SUB} |-> IF f = F_TOP THEN c ELSE Absent],
      dirs |-> IF d THEN {"dir"} ELSE {}] : c \in StringsUpTo(MaxStr) \cup {Absent}, d \in BOOLEAN}

EditInit ==
    /\ AgentInit
    /\ showStats
    /\ \E fs \in FileSystems :
        editFile = [pc |-> "idle", fs |-> fs, before |-> fs,
                    in |-> [path |-> "", old_str |-> <<>>, new_str |-> <<>>],
                    io |-> "ok", out |-> "", err |-> "none"]
    /\ storage = Unused
    /\ adapter = Unused
    /\ startup = Unused
    /\ listDir = Unused

\* createNewFile: os.MkdirAll of the directory, then os.WriteFile
createNewFile(e, filePath, content, mkdirOk, writeOk) ==
    IF Dir(filePath) /= "." /\ ~mkdirOk
    THEN [e EXCEPT !.io = "failed", !.err = "failed to create directory"]
    ELSE LET dirs == IF Dir(filePath) /= "." THEN e.fs.dirs \cup {Dir(filePath)} ELSE e.fs.dirs
         IN IF ~writeOk
            THEN [e EXCEPT !.fs.dirs = dirs, !.io = "failed", !.err = "failed to create file"]
            ELSE [e EXCEPT !.fs.dirs = dirs, !.fs.files[filePath] = content,
                           !.out = "Successfully created file", !.err = "nil"]

\* editFile: the whole call
EditFileCall ==
    /\ editFile.pc = "idle"
    /\ \E parseOk \in BOOLEAN, filePath \in EditPaths,
          old \in StringsUpTo(MaxStr), new \in StringsUpTo(MaxStr),
          mkdirOk \in BOOLEAN, writeOk \in BOOLEAN :
        LET e == [editFile EXCEPT !.pc = "returned",
                      !.in = [path |-> filePath, old_str |-> old, new_str |-> new]]
        IN IF ~parseOk
           THEN editFile' = [e EXCEPT !.err = "unmarshal error"]
           ELSE IF filePath = "" \/ old = new
           THEN editFile' = [e EXCEPT !.err = "invalid input parameters"]
           ELSE IF e.fs.files[filePath] = Absent
           THEN IF old = <<>>
                THEN editFile' = createNewFile(e, filePath, new, mkdirOk, writeOk)
                ELSE editFile' = [e EXCEPT !.err = "no such file or directory"]
           ELSE LET oldContent == e.fs.files[filePath]
                    newContent == Replace(oldContent, old, new)
                IN IF oldContent = newContent /\ old /= <<>>
                   THEN editFile' = [e EXCEPT !.err = "old_str not found in file"]
                   ELSE IF ~writeOk
                   THEN editFile' = [e EXCEPT !.io = "failed", !.err = "write error"]
                   ELSE editFile' = [e EXCEPT !.fs.files[filePath] = newContent,
                                              !.out = "OK", !.err = "nil"]
    /\ UNCHANGED <<pc, ret, tools, advertised, showStats, stats, messages, history,
                   uuidCtr, input, conversationID, fullResponse, pending, toolName,
                   toolInput, result, execErr, calls, executed, turn, discarded,
                   spinner, terminal, storage, adapter, startup, listDir>>

EditNext ==
    \/ EditFileCall

EditSpec == EditInit /\ [][EditNext]_vars

\* C30: a call with a non-empty path and old_str different from new_str on a
\* path where there is no file creates the file (when the disk lets it); and
\* the error outcomes "invalid input parameters" and "old_str not found in
\* file" leave the file system as it was
C30_CreatesMissingFile ==
    editFile.pc = "returned" =>
        /\ (/\ editFile.err /= "unmarshal error"
            /\ editFile.io = "ok"
            /\ editFile.in.path /= ""
            /\ editFile.in.old_str /= editFile.in.new_str
            /\ editFile.before.files[editFile.in.path] = Absent) =>
                editFile.fs.files[editFile.in.path] /= Absent
        /\ editFile.err \in {"invalid input parameters", "old_str not found in file"} =>
                editFile.fs = editFile.before

(***************************************************************************)
(* The content of the final assistant message (checked under Spec).        *)
(***************************************************************************)
\* the first reply of the current exchange followed by the reply to the
\* tool result
BothReplies == calls[FirstCallOf(turn)].reply \o LastCall.reply

\* C31: after a tool round trip the final assistant message, appended to the
\* transcript and (when the save succeeds) persisted, is the raw first reply
\* followed by the second reply, and with showStats the output-token estimate
\* added for the turn is the estimate of that same text
C31_FinalMessageIsBothReplies ==
    [][(TurnCompletes /\ ExecutedInTurn(turn) /= {}) =>
        /\ Cardinality(CallsOfTurn(turn)) = 2
        /\ messages'[Len(messages')] = Message("assistant", BothReplies)
        /\ history' /= history =>
              /\ history'[Len(history')].role = "assistant"
              /\ history'[Len(history')].content = BothReplies
        /\ showStats =>
              stats'.TotalOutputTokens =
                  stats.TotalOutputTokens + EstimateTokens(Fields(BothReplies))]_vars

\* a round trip has completed with statistics on: the last message and the
\* last record hold the tool-call text followed by the second reply
C31_Witness ==
    /\ pc = "input"
    /\ turn >= 1
    /\ showStats
    /\ ExecutedInTurn(turn) /= {}
    /\ Cardinality(CallsOfTurn(turn)) = 2
    /\ calls[FirstCallOf(turn)].reply /= <<>>
    /\ LastCall.reply /= <<>>
    /\ messages[Len(messages)] = Message("assistant", BothReplies)
    /\ history /= <<>>
    /\ history[Len(history)].content = BothReplies
    /\ stats.TotalOutputTokens >= EstimateTokens(Fields(BothReplies))

\* the reply to the tool result of the current exchange asks for a tool
SecondReplyAsksForTool ==
    /\ ExecutedInTurn(turn) /= {}
    /\ Cardinality(CallsOfTurn(turn)) = 2
    /\ LooksLikeToolUse(LastCall.reply)

\* C32: in every exchange the model is called at most twice and at most one
\* tool is executed; a tool request in the reply to a tool result is not
\* acted on: the step that follows the second stream completes the exchange
\* with that reply in the assistant message, executes nothing, calls the
\* model no more, and the loop is back at reading input
C32_OneToolStepPerExchange ==
    /\ [](\A t \in 1..turn :
            /\ Cardinality(CallsOfTurn(t)) <= 2
            /\ Cardinality(ExecutedInTurn(t)) <= 1)
    /\ [][(pc = "stream2" /\ pc' /= "stream2" /\ LastCall'.outcome = "nil") =>
            pc' = "finish"]_vars
    /\ [][(pc = "finish" /\ SecondReplyAsksForTool) =>
            /\ pc' = "input"
            /\ executed' = executed
            /\ calls' = calls
            /\ messages' = Append(messages, Message("assistant", BothReplies))]_vars

\* an exchange has completed whose second reply held a "[Tool:" request
C32_Witness ==
    /\ pc = "input"
    /\ turn = 2
    /\ SecondReplyAsksForTool
    /\ LastCall.reply = Concat(R_LINE)
    /\ Cardinality(ExecutedInTurn(turn)) = 1
    /\ messages[Len(messages)] = Message("assistant", BothReplies)

\* s is an initial part of t
IsPrefix(s, t) == Len(s) <= Len(t) /\ SubSeq(t, 1, Len(s)) = s

\* one system message, then user and assistant in turns, ending with an
\* assistant message; or the system message alone
WellShaped(msgs) ==
    /\ Len(msgs) >= 1
    /\ Len(msgs) % 2 = 1
    /\ msgs[1].role = "system"
    /\ \A k \in 2..Len(msgs) : msgs[k].role = IF k % 2 = 0 THEN "user" ELSE "assistant"

\* C33: the transcript only grows by appending, and whenever Run is about to
\* read input the transcript is the system message followed by user and
\* assistant messages in strict alternation, ending with an assistant message
C33_TranscriptShape ==
    /\ [][IsPrefix(messages, messages')]_vars
    /\ [](pc = "input" => WellShaped(messages))

\* back at reading input after a plain exchange and a tool round trip
C33_Witness ==
    /\ pc = "input"
    /\ turn = 2
    /\ Len(messages) = 7
    /\ ExecutedInTurn(turn) /= {}
    /\ WellShaped(messages)

(***************************************************************************)
(* The records of one run in the history (checked under Spec).             *)
(***************************************************************************)
\* the message is the "<result>...</result>" message of a tool round trip
IsResultMessage(content) == content /= <<>> /\ content[1] = RESULT_OPEN

\* the k-th message of the transcript closes an exchange: an assistant
\* message that no tool result follows
ClosesExchange(k) ==
    /\ messages[k].role = "assistant"
    /\ k = Len(messages) \/ ~IsResultMessage(messages[k + 1].content)

\* the records that carry identifier id
RecordsOf(id, role) ==
    {k \in 1..Len(history) : history[k].conversation_id = id /\ history[k].role = role}

\* what holds of the history whether or not a save fails: at most one user
\* and one assistant record per identifier, the user record first, and only
\* the user input and the final assistant message are ever persisted
RecordsWellFormed ==
    \A k \in 1..Len(history) :
        LET id == history[k].conversation_id
        IN /\ history[k].role \in {"user", "assistant"}
           /\ Cardinality(RecordsOf(id, "user")) <= 1
           /\ Cardinality(RecordsOf(id, "assistant")) <= 1
           /\ history[k].role = "assistant" => \A j \in RecordsOf(id, "user") : j < k
           /\ history[k].role = "user" => ~IsResultMessage(history[k].content)
           /\ history[k].role = "assistant" =>
                \E m \in 1..Len(messages) :
                    ClosesExchange(m) /\ messages[m].content = history[k].content

ShutdownInit ==
    /\ AgentInit
    /\ startup = [pc |-> "select", by |-> "none", printedIn |-> 0, printedOut |-> 0]
    /\ storage = Unused
    /\ adapter = Unused
    /\ listDir = Unused
    /\ editFile = Unused

\* the goroutine: a step of Run, as long as the process lives
RunInGoroutine ==
    /\ startup.pc /= "exited"
    /\ \/ RunInit
       \/ ReadInputOnce
       \/ OnChunk
       \/ StreamReturn
       \/ StreamError
       \/ Detect
       \/ Dispatch
       \/ ExecuteTool
       \/ StopSpinner
       \/ HandleResult
       \/ Finish

\* case err := <-errChan: Run has returned
MainReceivesError ==
    /\ startup.pc = "select"
    /\ pc = "done"
    /\ startup' = [startup EXCEPT !.pc = IF showStats THEN "PrintStats" ELSE "exited",
                                  !.by = "errChan"]
    /\ MainUnchanged

\* case <-sigChan: SIGINT or SIGTERM, at any time
MainReceivesSignal ==
    /\ startup.pc = "select"
    /\ startup' = [startup EXCEPT !.pc = IF showStats THEN "PrintStats" ELSE "exited",
                                  !.by = "sigChan"]
    /\ MainUnchanged

\* PrintStats prints a.stats.TotalInputTokens
PrintStatsInput ==
    /\ startup.pc = "PrintStats"
    /\ startup' = [startup EXCEPT !.pc = "printing", !.printedIn = stats.TotalInputTokens]
    /\ MainUnchanged

\* PrintStats prints a.stats.TotalOutputTokens and returns; main returns
PrintStatsOutput ==
    /\ startup.pc = "printing"
    /\ startup' = [startup EXCEPT !.pc = "exited", !.printedOut = stats.TotalOutputTokens]
    /\ MainUnchanged

ShutdownNext ==
    \/ RunInGoroutine
    \/ MainReceivesError
    \/ MainReceivesSignal
    \/ PrintStatsInput
    \/ PrintStatsOutput

ShutdownSpec == ShutdownInit /\ [][ShutdownNext]_vars

\* main is in PrintStats
InPrintStats == startup.pc \in {"PrintStats", "printing"}

\* C35: the shutdown statistics are race-free: while main is in PrintStats
\* Run has returned, and no step changes the statistics once PrintStats has
\* started
C35_PrintStatsRaceFree ==
    /\ [](InPrintStats => pc = "done")
    /\ [][InPrintStats => stats' = stats]_vars

(***************************************************************************)
(* SpinnerLiveSpec: SpinnerSpec with the scheduling the Go runtime gives:  *)
(* Printf returns, Sleep ends, and a send on done that meets the           *)
(* goroutine at its select goes through.                                   *)
(***************************************************************************)
SpinnerLiveSpec ==
    /\ SpinnerSpec
    /\ WF_vars(SpinnerPrint)
    /\ WF_vars(SpinnerWake)
    /\ WF_vars(StopSpinner)

\* C36: whenever Execute has returned, with a result or with an error, the
\* send on done completes and the spinner goroutine has returned; and no
\* spinner goroutine is running once Run has gone on from the send
C36_SpinnerStopIsLive ==
    /\ (pc = "executed") ~> (pc = "stopped" /\ spinner.pc = "returned")
    /\ [](pc \notin {"exec", "executed"} => ~SpinnerRuns)

\* Execute failed while the spinner was between two frames, and the send
\* went through all the same
C36_Witness ==
    /\ pc = "stopped"
    /\ execErr
    /\ spinner.pc = "returned"
    /\ FramesWritten = 2

\* the tool names the system message at the head of the transcript lists
ListedTools ==
    IF messages = <<>> THEN {}
    ELSE {<<messages[1].content[k + 1]>> :
            k \in {j \in 1..(Len(messages[1].content) - 1) : messages[1].content[j] = "- "}}

\* C37: every tool the system message lists is dispatchable: once Run has
\* gone on from a first reply that holds a well-formed block naming a listed
\* tool, that tool has been executed in the exchange
C37_ListedToolsAreDispatchable ==
    (/\ pc \in {"stopped", "stream2", "finish", "input"}
     /\ turn >= 1
     /\ CallsOfTurn(turn) /= {}
     /\ calls[FirstCallOf(turn)].outcome = "nil") =>
        \A b \in BlocksOf(calls[FirstCallOf(turn)].reply) :
            b.name \in ListedTools =>
                \E k \in ExecutedInTurn(turn) : executed[k].tool = b.name

(***************************************************************************)
(* ShareSpec: two SaveMessage calls, by two agents that opened the same    *)
(* history file, in every interleaving of their steps.  A call is two      *)
(* steps: os.ReadFile with json.Unmarshal, then json.MarshalIndent with    *)
(* os.WriteFile.                                                           *)
(***************************************************************************)
Writers == {1, 2}

ShareInit ==
    /\ AgentInit
    /\ showStats
    /\ \E f \in {MarshalIndent(<<>>), MarshalIndent(<<OldRecord>>)} :
        storage = [pc |-> "shared", file |-> f, initial |-> UnmarshalList(f), log |-> <<>>,
                   call |-> [w \in Writers |->
                                [pc |-> "idle", messages |-> <<>>, chatMsg |-> OldRecord,
                                 err |-> "none"]]]
    /\ adapter = Unused
    /\ startup = Unused
    /\ listDir = Unused
    /\ editFile = Unused

ShareUnchanged ==
    UNCHANGED <<pc, ret, tools, advertised, showStats, stats, messages, history,
                uuidCtr, input, conversationID, fullResponse, pending, toolName,
                toolInput, result, execErr, calls, executed, turn, discarded,
                spinner, terminal, adapter, startup, listDir, editFile>>

\* the first half of SaveMessage, by writer w: the ChatMessage is built, the
\* file is read and parsed
SharedRead(w, msg, readOk) ==
    IF ~readOk
    THEN [storage EXCEPT !.call[w].pc = "returned",
                         !.call[w].err = "failed to read chat history"]
    ELSE IF ~storage.file.ok
    THEN [storage EXCEPT !.call[w].pc = "returned",
                         !.call[w].err = "failed to parse chat history"]
    ELSE [storage EXCEPT
            !.call[w].pc = "read",
            !.call[w].chatMsg = ChatMessage(NewUUID(w), w, msg, ModelName,
                                            Usage(Fields(msg.content), 0)),
            !.call[w].messages = UnmarshalList(storage.file),
            !.log = Append(@, [w |-> w, ev |-> "read"])]

SaveMessageReads ==
    /\ storage.pc = "shared"
    /\ \E w \in Writers, msg \in SavedMessages, readOk \in BOOLEAN :
        /\ storage.call[w].pc = "idle"
        /\ storage' = SharedRead(w, msg, readOk)
    /\ ShareUnchanged

\* the second half: the list that was read, with the new record appended, is
\* written over the file; a failed os.WriteFile leaves the file as it was or
\* cut short
SaveMessageWrites ==
    /\ storage.pc = "shared"
    /\ \E w \in Writers, writeOk \in BOOLEAN, cut \in BOOLEAN :
        /\ storage.call[w].pc = "read"
        /\ IF writeOk
           THEN /\ ~cut
                /\ storage' = [storage EXCEPT
                    !.call[w].pc = "returned",
                    !.call[w].err = "nil",
                    !.file = MarshalIndent(AppendRecord(storage.call[w].messages,
                                                        storage.call[w].chatMsg)),
                    !.log = Append(@, [w |-> w, ev |-> "write"])]
           ELSE storage' = [storage EXCEPT
                    !.call[w].pc = "returned",
                    !.call[w].err = "failed to write chat history",
                    !.file = IF cut THEN NotJSON ELSE @]
    /\ ShareUnchanged

ShareNext ==
    \/ SaveMessageReads
    \/ SaveMessageWrites

ShareSpec == ShareInit /\ [][ShareNext]_vars

\* both calls returned nil
BothSucceeded == \A w \in Writers : storage.call[w].pc = "returned" /\ storage.call[w].err = "nil"

\* the record of writer w is in the file
Present(w) ==
    \E k \in 1..Len(storage.file.text) :
        UnmarshalRecord(storage.file.text[k]).id = storage.call[w].chatMsg.id

\* C38: when two SaveMessage calls on the same file both return success, both
\* records are in the file afterwards, in every interleaving of their read
\* and write steps
C38_NoLostAppend == BothSucceeded => \A w \in Writers : Present(w)

\* a step of StorageSpec that is a call of SaveMessage, and one that is the
\* call of NewChatStorage
IsSaveMessageStep == storage.pc = "open" /\ storage'.pc = "open" /\ storage'.uuids = storage.uuids + 1
IsNewChatStorageStep == storage.pc = "found" /\ storage'.pc \in {"open", "failed"}
FailedBeforeWrite == {"failed to read chat history", "failed to parse chat history"}

\* C39: a SaveMessage call on a file that does not parse returns an error; a
\* SaveMessage call that returns the read or the parse error leaves the file
\* as it was; NewChatStorage leaves a file that exists as it is, whatever is
\* in it, and writes the empty list only where there was no file
C39_ErrorPathsKeepFile ==
    [][/\ IsSaveMessageStep =>
            /\ ~storage.file.ok => storage'.err \in FailedBeforeWrite
            /\ storage'.err \in FailedBeforeWrite => storage'.file = storage.file
       /\ IsNewChatStorageStep =>
            /\ storage.file /= NoFile => (storage'.file = storage.file /\ storage'.pc = "open")
            /\ storage'.file /= storage.file =>
                  (storage.file = NoFile /\ storage'.file = MarshalIndent(<<>>))]_vars

\* the storage was opened on a file with a record in it, a SaveMessage call
\* failed to read it, and the record is still there
C39_Witness ==
    /\ storage.pc = "open"
    /\ storage.err = "failed to read chat history"
    /\ storage.uuids >= 1
    /\ storage.saved = <<>>
    /\ storage.file = MarshalIndent(<<OldRecord>>)

====
